---- MODULE Spec2Model ----
(***************************************************************************)
(* State-machine model of the health-bot Lambdas: the command engine       *)
(* (infra/envs/dev/lambda/meal_enricher.py), the facts sender              *)
(* (facts_sender.py) and the facts upload (facts_ingest.py).  The DynamoDB *)
(* tables are the state; one action per handler reached from               *)
(* lambda_handler, run to completion.  The overlap and the concurrent      *)
(* models split an invocation into its store operations, one action each.  *)
(***************************************************************************)
EXTENDS Integers, Sequences, FiniteSets, Bags, TLC

(* ------------------------------------------------------------------ *)
(* Bounds of the model (not program constants)                         *)
(* ------------------------------------------------------------------ *)
\* number of clock advances (each of TickMs)
MaxTicks == 1
\* number of signed deltas applied to Daily Totals in one behaviour
MaxDeltas == 3
\* number of medication-dose commands in one behaviour of the dose models
MaxDoses == 7
\* number of episode commands (start / end) in one behaviour
MaxEpisodeOps == 3
\* number of lambda_handler invocations in flight together
MaxWorkers == 3
\* number of doses logged in one behaviour of the lifecycle models
MaxLinkedDoses == 2

(* ------------------------------------------------------------------ *)
(* Program constants                                                   *)
(* ------------------------------------------------------------------ *)
TRIPTAN_LIMIT_DPM == 8
DHE_LIMIT_DPM == 6
COMBO_LIMIT_DPM == 8
PAIN_LIMIT_DPM == 12
HOUR_MS == 60 * 60 * 1000
DAY_MS == 24 * 60 * 60 * 1000
\* America/New_York as the fixed standard-time offset UTC-5 (no DST in the model)
TZ_OFFSET_MS == 5 * HOUR_MS
\* DRY_RUN environment toggle: its default, "0"
DRY_RUN == FALSE

(* ------------------------------------------------------------------ *)
(* Time helpers                                                        *)
(* ------------------------------------------------------------------ *)
\* the instant h hours after 1970-01-01T00:00Z, in ms
AtHour(h) == h * HOUR_MS

\* _today_est_from_ts: the local calendar day of an instant, as a day index
today_est_from_ts(ts_ms) == (ts_ms - TZ_OFFSET_MS) \div DAY_MS

\* a when-phrase, as _parse_when_to_ms reads the joined, lowercased tokens:
\* form "empty", "now", "iso" (YYYY-MM-DD[ HH:MM][am|pm]), "clock"
\* (H[:MM][am|pm]), "today" (today H[:MM][am|pm]) or "other"; yesterday when the
\* word is in the text; day is the day index of the ISO date and valid whether
\* its month and day exist; hh and mm are the numbers read, ap is "", "am", "pm"
Phrase(form, yesterday, day, valid, hh, mm, ap) ==
    [form |-> form, yesterday |-> yesterday, day |-> day, valid |-> valid,
     hh |-> hh, mm |-> mm, ap |-> ap]
NoPhrase == Phrase("empty", FALSE, 0, TRUE, 0, 0, "")

\* the 12-hour adjustment: 12 becomes 0, pm adds 12
Hour24(hh, ap) ==
    IF ap \in {"am", "pm"}
    THEN (IF hh = 12 THEN 0 ELSE hh) + (IF ap = "pm" THEN 12 ELSE 0)
    ELSE hh

\* datetime(y, m, d, hh, mm, tzinfo=TZ).timestamp() * 1000: ValueError when a
\* field is out of range
LocalMs(day, valid, hh, mm) ==
    IF valid /\ hh \in 0 .. 23 /\ mm \in 0 .. 59
    THEN [raised |-> FALSE, ms |-> day * DAY_MS + hh * HOUR_MS + mm * 60000 + TZ_OFFSET_MS]
    ELSE [raised |-> TRUE, ms |-> 0]

\* a variant that reads the clock of a full date phrase on the current day
parse_when_on_today(p, now_ms) ==
    IF p.form \in {"iso", "clock", "today"}
    THEN LocalMs(today_est_from_ts(now_ms) - (IF p.yesterday THEN 1 ELSE 0), p.valid,
                 Hour24(p.hh, p.ap), p.mm)
    ELSE [raised |-> FALSE, ms |-> now_ms]

\* _parse_when_to_ms: the instant, or the exception that leaves it
parse_when_to_ms(p, now_ms) ==
    IF p.form \in {"empty", "now"} THEN [raised |-> FALSE, ms |-> now_ms]
    ELSE IF p.form = "iso" THEN LocalMs(p.day, p.valid, Hour24(p.hh, p.ap), p.mm)
    ELSE IF p.form \in {"clock", "today"}
    THEN LocalMs(today_est_from_ts(now_ms) - (IF p.yesterday THEN 1 ELSE 0), TRUE,
                 Hour24(p.hh, p.ap), p.mm)
    ELSE [raised |-> FALSE, ms |-> now_ms]

\* clock step and start: the clock starts at 1970-01-02 08:00 local time
TickMs == 12 * HOUR_MS
Clock0 == AtHour(24 + 8 + 5)

(* ------------------------------------------------------------------ *)
(* Macros                                                              *)
(* ------------------------------------------------------------------ *)
Mac(c, p, b, f) == [calories |-> c, protein |-> p, carbs |-> b, fat |-> f]
ZeroMac == Mac(0, 0, 0, 0)
MacAdd(x, y) == Mac(x.calories + y.calories, x.protein + y.protein,
                    x.carbs + y.carbs, x.fat + y.fat)
MacNeg(x) == Mac(0 - x.calories, 0 - x.protein, 0 - x.carbs, 0 - x.fat)
MacScale(x, q) == Mac(x.calories * q, x.protein * q, x.carbs * q, x.fat * q)

\* _as_decimal: negative numbers become 0
as_decimal(n) == IF n >= 0 THEN n ELSE 0
\* _as_decimal_signed: the number itself
as_decimal_signed(n) == n

Max(a, b) == IF a >= b THEN a ELSE b
Abs(a) == IF a >= 0 THEN a ELSE 0 - a

(* ------------------------------------------------------------------ *)
(* Inputs                                                              *)
(* ------------------------------------------------------------------ *)
\* sender addresses: msg.sender / msg.from, "" when the message has none
Senders == {"", "+1555"}
\* message timestamps (msg.sk): 09:00 and 21:00 local on day 1
MsgTimes == {AtHour(24 + 9 + 5), AtHour(24 + 21 + 5)}
\* a meal text: `whole` is the text without a leading "<q>x " (q = 0 when it has
\* none) and `foods` the parts that splitting the text at , + / and " and " gives
MealText(q, whole, foods) == [q |-> q, whole |-> whole, foods |-> foods]
\* the meal messages of the meal model: (text, timestamp), two of them with the
\* same text and two with the same timestamp
MealInputs ==
    {<<MealText(0, "eggs", <<"eggs">>), AtHour(24 + 9 + 5)>>,
     <<MealText(0, "eggs", <<"eggs">>), AtHour(24 + 21 + 5)>>,
     <<MealText(2, "tuna", <<"tuna">>), AtHour(24 + 9 + 5)>>}
\* the meal messages of the override model: a stored alias, the alias with a
\* quantity, and an alias that holds a separator
OverrideMeals ==
    {<<MealText(0, "tuna", <<"tuna">>), AtHour(24 + 9 + 5)>>,
     <<MealText(2, "tuna", <<"tuna">>), AtHour(24 + 9 + 5)>>,
     <<MealText(0, "mac and cheese", <<"mac", "cheese">>), AtHour(24 + 9 + 5)>>}
\* foods of a Nutritionix answer, already rounded by _extract_macros_from_food
NxFoodA == Mac(3, 1, 1, 0)
NxFoodB == Mac(2, 2, 0, 1)
\* answers of the Nutritionix call
NxResponses ==
    {[kind |-> "timeout", status |-> 0, foods |-> <<>>],
     [kind |-> "exception", status |-> 0, foods |-> <<>>]}
    \cup [kind : {"http"}, status : {429, 500, 404}, foods : {<<>>}]
    \cup [kind : {"http"}, status : {200},
          foods : {<<>>, <<NxFoodA>>, <<NxFoodA, NxFoodB>>}]
\* a token of a command's arguments (args.split()): a word, or a macro token
\* "<key>=<number>"; eq tells whether the token holds "="
Word(w) == [w |-> w, eq |-> FALSE, k |-> "", v |-> 0]
MacroTok(k, v) == [w |-> k \o "=" \o ToString(v), eq |-> TRUE, k |-> k, v |-> v]
\* alias words given to /food set and /food del
Aliases == {<<Word("tuna")>>, <<Word("mac"), Word("and"), Word("cheese")>>}
\* macros given to /food set
OverrideMacros == {<<MacroTok("k", 5), MacroTok("p", 4), MacroTok("f", 1)>>}
\* the /food commands on one alias: no arguments, list, an unknown subcommand,
\* del, set with macros, set with all-zero macros
FoodCommands(alias) ==
    {<<>>, <<Word("list")>>, <<Word("other")>>, <<Word("del")>> \o alias,
     <<Word("set")>> \o alias \o <<MacroTok("k", 0)>>}
    \cup {<<Word("set")>> \o alias \o m : m \in OverrideMacros}

\* the instant the when-phrases of /migraine and /fast resolve to when they name
\* one: 06:00 local on day 1 (before the clock's start); without one, the clock
EpisodeTimes == {AtHour(24 + 6 + 5)}
\* when-phrases: none, "now", words that are no time, clock times with and
\* without "today", "yesterday", am/pm, in and out of range, and ISO dates of
\* days 1 and 2 with and without a clock time, with months that do not exist
Phrases ==
    {NoPhrase, Phrase("now", FALSE, 0, TRUE, 0, 0, ""), Phrase("other", FALSE, 0, TRUE, 0, 0, ""),
     Phrase("other", TRUE, 0, TRUE, 0, 0, "")}
    \cup {Phrase(form, y, 0, TRUE, hh, mm, ap) :
            form \in {"clock", "today"}, y \in BOOLEAN, hh \in {9, 12, 25},
            mm \in {0, 75}, ap \in {"", "pm"}}
    \cup {Phrase("iso", FALSE, day, valid, hh, mm, "") :
            day \in {1, 2}, valid \in BOOLEAN, hh \in {0, 8, 25}, mm \in {0, 30}}
\* categories given to /migraine start and notes given to /migraine start and
\* end: the note tokens joined by one space, "" when there are none
MigCats == {"non-aura", "aura"}
Notes == {"", "dark room"}
\* hours given to /fast goal; NoGoal for a missing or malformed number
GoalHours == {-1, 1}

\* instants the when-phrase of /med resolves to: 23:00 local on day 0, 01:00 and
\* 23:00 on day 1 (2 h, 22 h and exactly 24 h apart)
DoseTimes == {AtHour(23 + 5), AtHour(24 + 1 + 5), AtHour(24 + 23 + 5)}
\* as many instants as doses, one hour apart from 00:00 local on day 1
HourlyTimes == {AtHour(24 + 5 + i) : i \in 0 .. MaxDoses - 1}

\* message timestamps of the range model: noon of the last day of the month
\* before, noon of day 0, 09:00 of day 1
RangeTimes == {AtHour(12 + 5 - 24), AtHour(12 + 5), AtHour(24 + 9 + 5)}

\* the calendar days the messages fall on
Days == {today_est_from_ts(t) : t \in MsgTimes \cup RangeTimes}

(* ------------------------------------------------------------------ *)
(* State                                                               *)
(* ------------------------------------------------------------------ *)
VARIABLES
    now,        \* _now_ms(): the wall clock
    meals,      \* meals table: set of Meal Records, keyed by (dt, text, ts)
    totals,     \* totals table: day -> macros, defined on the days that have a row
    events,     \* events table: set of [sk, type], keyed by sk
    overrides,  \* food overrides table: alias -> macros, on the stored aliases
    migs,       \* migraines table: set of episodes, keyed by start_ms
    fasts,      \* fasting table: set of episodes, keyed by start_ms
    fastgoal,   \* fasting table, item "goal": the goal hours, NoGoal when unset
    meds,       \* meds table: set of doses, keyed by (dt, ts_ms)
    msg,        \* the inbound message lambda_handler processed last: its command,
                \*   its /test marker, whether it re-delivers a stored meal, and
                \*   how the nutrition lookup made for it ended
    out,        \* what the invocation did: the replies sent, whether it raised
    ledger,     \* history: day -> the bag of signed deltas applied to its totals,
                \*          and whether the day was reset
    nops,       \* history: counters of the commands processed
    factscfg,   \* facts table, item "config#facts": the attributes it carries
    facts,      \* facts table: the stored facts (their sort keys)
    ticks,      \* facts_sender: per scheduler invocation, its position, the
                \*   config it read, its local date and hour, and what it returned
    sent,       \* history: the bag of days on which facts_sender sent a fact
    workers     \* concurrent meal invocations: per invocation, its position,
                \*   its day and the delta it carries

vars == <<now, meals, totals, events, overrides, migs, fasts, fastgoal, meds, msg, out, ledger, nops,
          factscfg, facts, ticks, sent, workers>>
bg == <<factscfg, facts, ticks, sent, workers>>
store == <<meals, totals, events, overrides, migs, fasts, fastgoal, meds>>
NoGoal == -1

\* a message with no when-phrase
NoWhen == [phrase |-> NoPhrase, raised |-> FALSE, ms |-> 0]
\* the text of a message that is no meal
NoText == MealText(0, "", <<>>)
NoMsg == [cmd |-> "none", sim |-> FALSE, redelivered |-> FALSE, lookup |-> "none",
          sub |-> "", text |-> NoText, gateway |-> "ok", args |-> <<>>,
     kw |-> "none", rest |-> "", when |-> NoWhen, sender |-> ""]
NoOut == [replies |-> <<>>, raised |-> FALSE]

\* marks of the attributes the config item does not carry
NoHour == -1
NoDay == -1000
\* the config item before anything wrote it: get_item gives {}
NoConfig == [daily_enabled |-> FALSE, daily_hour |-> NoHour, to_number |-> "",
             last_sent_dt |-> NoDay]
\* scheduler invocations that may be in flight together
TickProcs == {1, 2}
\* a scheduler invocation that is not running, and what the last one returned
IdleTick(res) == [pc |-> "idle", today |-> NoDay, item |-> NoConfig, res |-> res]
\* concurrent invocations of lambda_handler, and one that has not begun: its
\* position, command, day, message timestamp and text, macros, the meal row an
\* undo picked, its reply; history: the signed delta it has added to the
\* totals and whether another invocation was in flight then
WorkerIds == 1 .. MaxWorkers
IdleWorker ==
    [pc |-> "idle", op |-> "none", dt |-> NoDay, ts |-> 0, text |-> NoText,
     macros |-> ZeroMac,
     row |-> [sk |-> <<NoDay, NoText, 0>>, dt |-> NoDay, kcal |-> 0, protein_g |-> 0,
              carbs_g |-> 0, fat_g |-> 0, created_ms |-> 0],
     res |-> "", applied |-> ZeroMac, overlap |-> FALSE]

Init ==
    /\ now = Clock0
    /\ meals = {}
    /\ totals = <<>>
    /\ events = {}
    /\ overrides = <<>>
    /\ migs = {}
    /\ fasts = {}
    /\ fastgoal = NoGoal
    /\ meds = {}
    /\ msg = NoMsg
    /\ out = NoOut
    /\ ledger = [d \in Days |-> [applied |-> EmptyBag, reset |-> FALSE]]
    /\ nops = [deltas |-> 0, doses |-> 0, episodes |-> 0]
    /\ factscfg = NoConfig
    /\ facts = {}
    /\ ticks = [p \in TickProcs |-> IdleTick("none")]
    /\ sent = EmptyBag
    /\ workers = [w \in WorkerIds |-> IdleWorker]

\* time passes
Tick ==
    /\ now < Clock0 + MaxTicks * TickMs
    /\ now' = now + TickMs
    /\ UNCHANGED <<meals, totals, events, overrides, migs, fasts, fastgoal, meds, msg, out, ledger, nops, bg>>

\* one _send_sms call
Reply(kind) == [kind |-> kind, warn |-> {}, n |-> 0, cat |-> ""]
\* a reply that reports a number (a duration in minutes)
ReplyN(kind, n) == [kind |-> kind, warn |-> {}, n |-> n, cat |-> ""]
\* the invocation ended in an exception that left lambda_handler
Raised == [replies |-> <<>>, raised |-> TRUE]
\* the _send_sms calls of a handler, under the gateway answer of the invocation:
\* requests.post raises on a timeout and on a request exception, and _send_sms
\* does not catch it
send_sms(replies, gateway) ==
    IF replies # <<>> /\ gateway \in {"timeout", "exception"} THEN Raised
    ELSE [replies |-> replies, raised |-> FALSE]

\* what an invocation that sends these replies ends with
Sent(replies) == send_sms(replies, msg'.gateway)

(* ------------------------------------------------------------------ *)
(* Nutrition lookup and overrides                                      *)
(* ------------------------------------------------------------------ *)
RECURSIVE SumFoods(_)
SumFoods(foods) ==
    IF foods = <<>> THEN ZeroMac ELSE MacAdd(Head(foods), SumFoods(Tail(foods)))

\* a lookup that takes an empty food list for a meal of zero macros
nutritionix_empty_ok(resp) ==
    IF resp.kind = "timeout" THEN [ok |-> FALSE, err |-> "timed out", total |-> ZeroMac]
    ELSE IF resp.kind = "exception" THEN [ok |-> FALSE, err |-> "request failed", total |-> ZeroMac]
    ELSE IF resp.status >= 400 THEN [ok |-> FALSE, err |-> "error status", total |-> ZeroMac]
    ELSE [ok |-> TRUE, err |-> "", total |-> SumFoods(resp.foods)]

\* _nutritionix: NxError on timeout, request exception, 429, >= 500, >= 400 and
\* on an empty food list; otherwise the sum of the (first 20) foods
nutritionix(resp) ==
    IF resp.kind = "timeout" THEN [ok |-> FALSE, err |-> "timed out", total |-> ZeroMac]
    ELSE IF resp.kind = "exception" THEN [ok |-> FALSE, err |-> "request failed", total |-> ZeroMac]
    ELSE IF resp.status = 429 THEN [ok |-> FALSE, err |-> "rate limited", total |-> ZeroMac]
    ELSE IF resp.status >= 500 THEN [ok |-> FALSE, err |-> "server error", total |-> ZeroMac]
    ELSE IF resp.status >= 400 THEN [ok |-> FALSE, err |-> "error status", total |-> ZeroMac]
    ELSE IF resp.foods = <<>> THEN [ok |-> FALSE, err |-> "no matches", total |-> ZeroMac]
    ELSE [ok |-> TRUE, err |-> "", total |-> SumFoods(resp.foods)]

NoAlias == "(none)"

\* _get_override: the stored item, looked up in the table value tbl
has_override(tbl, alias) == alias \in DOMAIN tbl

\* _put_override: upsert under the alias, every macro through _as_decimal
put_override(tbl, alias, macros) ==
    [a \in DOMAIN tbl \cup {alias} |->
        IF a = alias
        THEN Mac(as_decimal(macros.calories), as_decimal(macros.protein),
                 as_decimal(macros.carbs), as_decimal(macros.fat))
        ELSE tbl[a]]

\* _del_override
del_override(tbl, alias) == [a \in DOMAIN tbl \ {alias} |-> tbl[a]]

RECURSIVE FirstOverride(_, _)
FirstOverride(tbl, parts) ==
    IF parts = <<>> THEN NoAlias
    ELSE IF has_override(tbl, Head(parts)) THEN Head(parts)
    ELSE FirstOverride(tbl, Tail(parts))

\* _match_override_in_text on the meal texts: "<q>x <rest>" matches the first
\* pattern with the whole rest as alias; otherwise the text is split at , + / and
\* " and " and the first part that is a stored alias is taken with quantity 1
\* (the part "<q>x <food>" of a longer text is no alias)
match_override_in_text(tbl, text) ==
    IF text.q > 0 /\ has_override(tbl, text.whole)
    THEN [alias |-> text.whole, qty |-> text.q]
    ELSE LET parts == IF text.q > 0 THEN Tail(text.foods) ELSE text.foods
             a == FirstOverride(tbl, parts)
         IN [alias |-> a, qty |-> IF a = NoAlias THEN 0 ELSE 1]

\* _macros_from_override: the stored macros times max(1, qty)
macros_from_override(tbl, alias, qty) == MacScale(tbl[alias], Max(1, qty))

(* ------------------------------------------------------------------ *)
(* Meals core                                                          *)
(* ------------------------------------------------------------------ *)
\* put_item on the events table: one item per sort key
put_event(tbl, sk, type) == {e \in tbl : e.sk # sk} \cup {[sk |-> sk, type |-> type]}

\* _write_enriched_event
write_enriched_event(tbl, ts_ms) == put_event(tbl, ts_ms, "meal.enriched")

\* _meal_id: the hash of user|dt|text|ts, taken as collision-free
meal_id(dt, text, ts_ms) == <<dt, text, ts_ms>>

MealRow(dt, ts_ms, text, macros, created) ==
    [sk |-> meal_id(dt, text, ts_ms), dt |-> dt,
     kcal |-> as_decimal(macros.calories), protein_g |-> as_decimal(macros.protein),
     carbs_g |-> as_decimal(macros.carbs), fat_g |-> as_decimal(macros.fat),
     created_ms |-> created]

\* _put_meal_row_idempotent: conditional put, a no-op when the key exists
put_meal_row_idempotent(tbl, dt, ts_ms, text, macros, created) ==
    IF \E r \in tbl : r.sk = meal_id(dt, text, ts_ms)
    THEN tbl
    ELSE tbl \cup {MealRow(dt, ts_ms, text, macros, created)}

\* _get_totals_for_day: the row, or zeros when the day has none
get_totals_for_day(tbl, dt) == IF dt \in DOMAIN tbl THEN tbl[dt] ELSE ZeroMac

\* a write of the totals row that puts the delta in place of the stored values
PutToRow(tbl, dt, delta) ==
    [d \in DOMAIN tbl \cup {dt} |-> IF d = dt THEN delta ELSE tbl[d]]

\* ADD on the totals row (created when missing)
AddToRow(tbl, dt, delta) ==
    [d \in DOMAIN tbl \cup {dt} |->
        IF d = dt THEN MacAdd(get_totals_for_day(tbl, dt), delta) ELSE tbl[d]]

\* _update_totals: ADD the deltas, each through _as_decimal
update_totals(tbl, dt, deltas) ==
    AddToRow(tbl, dt, Mac(as_decimal(deltas.calories), as_decimal(deltas.protein),
                          as_decimal(deltas.carbs), as_decimal(deltas.fat)))

\* a decrement that sends the negated macros through _as_decimal instead
decrement_totals_clamped(tbl, dt, macros) ==
    AddToRow(tbl, dt, Mac(as_decimal(0 - macros.calories), as_decimal(0 - macros.protein),
                          as_decimal(0 - macros.carbs), as_decimal(0 - macros.fat)))

\* _decrement_totals: ADD the negated macros, through _as_decimal_signed
decrement_totals(tbl, dt, macros) ==
    AddToRow(tbl, dt, Mac(as_decimal_signed(0 - macros.calories),
                          as_decimal_signed(0 - macros.protein),
                          as_decimal_signed(0 - macros.carbs),
                          as_decimal_signed(0 - macros.fat)))

\* history: one more signed delta applied to the day
Applied(dt, delta) ==
    [ledger EXCEPT ![dt].applied = @ (+) SetToBag({delta})]

Count(field) == [nops EXCEPT ![field] = @ + 1]

\* the message lambda_handler decoded: the command it routes to and the /test marker
Msg(cmd, sim) == [cmd |-> cmd, sim |-> sim, redelivered |-> FALSE, lookup |-> "none",
                  sub |-> "", text |-> NoText, gateway |-> "ok", args |-> <<>>,
     kw |-> "/" \o cmd, rest |-> "", when |-> NoWhen, sender |-> ""]

\* an episode message: its subcommand, and whether it is a Start whose episode
\* key is already stored
StartMsg(cmd, sim, sub, tbl, when_ms) ==
    [cmd |-> cmd, sim |-> sim,
     redelivered |-> sub = "start" /\ ~sim /\ \E e \in tbl : e.start_ms = when_ms,
     lookup |-> "none", sub |-> sub, text |-> NoText, gateway |-> "ok", args |-> <<>>,
     kw |-> "/" \o cmd, rest |-> " x", when |-> [NoWhen EXCEPT !.ms = when_ms], sender |-> ""]

\* the nutrition lookup fails: timeout, request error, HTTP error status, no food
LookupFails(resp) ==
    \/ resp.kind \in {"timeout", "exception"}
    \/ resp.status >= 400
    \/ resp.foods = <<>>

\* a meal message: its text, whether a Meal Record with its key is already stored, and how
\* the nutrition lookup of its text ends ("none": an override answers the text)
MealMsg(sim, dt, ts_ms, text, resp) ==
    [cmd |-> "meal", sim |-> sim,
     redelivered |-> \E r \in meals : r.sk = meal_id(dt, text, ts_ms),
     lookup |-> IF match_override_in_text(overrides, text).alias # NoAlias THEN "none"
                ELSE IF LookupFails(resp) THEN "failed" ELSE "ok",
     sub |-> "", text |-> text, gateway |-> "ok", args |-> <<>>,
     kw |-> "meal", rest |-> " x", when |-> NoWhen, sender |-> ""]

\* the writes of a saved meal: enriched event, conditional meal row, totals delta
SaveMeal(dt, ts_ms, text, macros) ==
    /\ nops.deltas < MaxDeltas
    /\ events' = write_enriched_event(events, ts_ms)
    /\ meals' = put_meal_row_idempotent(meals, dt, ts_ms, text, macros, now)
    /\ totals' = update_totals(totals, dt, macros)
    /\ ledger' = Applied(dt, macros)
    /\ nops' = Count("deltas")

\* _handle_meal
handle_meal(sender, dt, ts_ms, text, simulate, resp) ==
    LET m == match_override_in_text(overrides, text)
        nx == nutritionix(resp)
    IN  IF m.alias # NoAlias
        THEN LET macros == macros_from_override(overrides, m.alias, m.qty)
             IN IF simulate \/ DRY_RUN
                THEN /\ out' = Sent(<<Reply("test_meal_override")>>)
                     /\ UNCHANGED <<meals, totals, events, ledger, nops>>
                ELSE /\ SaveMeal(dt, ts_ms, text, macros)
                     /\ out' = Sent(IF sender # "" THEN <<Reply("meal_saved_override")>>
                                    ELSE <<>>)
        ELSE IF ~nx.ok
        THEN /\ out' = Sent(<<Reply("sorry_nx")>>)
             /\ UNCHANGED <<meals, totals, events, ledger, nops>>
        ELSE IF simulate \/ DRY_RUN
        THEN /\ out' = Sent(<<Reply("test_meal")>>)
             /\ UNCHANGED <<meals, totals, events, ledger, nops>>
        ELSE /\ SaveMeal(dt, ts_ms, text, nx.total)
             /\ out' = Sent(IF sender # "" THEN <<Reply("meal_saved")>> ELSE <<>>)

\* the macros an undo takes from the stored row
RowMacros(r) == Mac(r.kcal, r.protein_g, r.carbs_g, r.fat_g)

\* the rows created first
earliest_meals(items) == {r \in items : \A x \in items : x.created_ms >= r.created_ms}

\* max(items, key=created_ms): a row with the greatest created_ms (any of them
\* on a tie)
latest_meals(items) == {r \in items : \A x \in items : x.created_ms <= r.created_ms}

\* _handle_undo on a day with meal rows: decrement, delete, audit event, reply
undo_latest(sender, dt, simulate, items) ==
    \E latest \in latest_meals(items) :
        IF simulate \/ DRY_RUN
        THEN /\ out' = Sent(<<Reply("test_undo")>>)
             /\ UNCHANGED <<meals, totals, events, ledger, nops>>
        ELSE /\ nops.deltas < MaxDeltas
             /\ totals' = decrement_totals(totals, dt, RowMacros(latest))
             /\ meals' = meals \ {latest}
             /\ events' = put_event(events, now, "meal.undo")
             /\ ledger' = Applied(dt, MacNeg(RowMacros(latest)))
             /\ nops' = Count("deltas")
             /\ out' = Sent(<<Reply("undid")>>)

\* an undo that records its audit event also when the day has no meal
handle_undo_audited(sender, dt, simulate) ==
    LET items == {r \in meals : r.dt = dt}
    IN  IF items = {}
        THEN /\ out' = Sent(<<Reply("no_meals")>>)
             /\ events' = put_event(events, now, "meal.undo")
             /\ UNCHANGED <<meals, totals, ledger, nops>>
        ELSE undo_latest(sender, dt, simulate, items)

\* _handle_undo
handle_undo(sender, dt, simulate) ==
    LET items == {r \in meals : r.dt = dt}
    IN  IF items = {}
        THEN /\ out' = Sent(<<Reply("no_meals")>>)
             /\ UNCHANGED <<meals, totals, events, ledger, nops>>
        ELSE undo_latest(sender, dt, simulate, items)

\* a reset that sets the calories to 0 and keeps the other metrics
handle_reset_calories(sender, dt, simulate) ==
    IF simulate \/ DRY_RUN
    THEN /\ out' = Sent(<<Reply("test_reset")>>)
         /\ UNCHANGED <<meals, totals, events, ledger, nops>>
    ELSE /\ totals' = [d \in DOMAIN totals \cup {dt} |->
                         IF d = dt THEN [get_totals_for_day(totals, dt) EXCEPT !.calories = 0]
                         ELSE totals[d]]
         /\ events' = put_event(events, now, "totals.reset")
         /\ ledger' = [ledger EXCEPT ![dt].reset = TRUE]
         /\ out' = Sent(<<Reply("reset")>>)
         /\ UNCHANGED <<meals, nops>>

\* _handle_summary: the totals of the day
handle_summary(sender, dt) ==
    out' = Sent(<<ReplyN("summary", get_totals_for_day(totals, dt).calories)>>)

\* _handle_lookup: the totals the meal would give, nothing saved
handle_lookup(sender, dt, resp) ==
    LET nx == nutritionix(resp)
    IN  out' = Sent(<<IF ~nx.ok THEN Reply("lookup_failed")
                      ELSE ReplyN("lookup", get_totals_for_day(totals, dt).calories
                                            + nx.total.calories)>>)

\* digit counts of the argument of /barcode
BarcodeLengths == {0, 11, 12}
\* _handle_barcode: a usage hint unless the digits are 8, 12, 13 or 14; found
\* tells whether _nutritionix_lookup_upc returns an item
handle_barcode(sender, ndigits, found) ==
    out' = Sent(<<Reply(IF ndigits \notin {8, 12, 13, 14} THEN "usage_barcode"
                        ELSE IF ~found THEN "barcode_not_found"
                        ELSE "barcode_match")>>)

\* _handle_reset_today: SET the four totals to 0
handle_reset_today(sender, dt, simulate) ==
    IF simulate \/ DRY_RUN
    THEN /\ out' = Sent(<<Reply("test_reset")>>)
         /\ UNCHANGED <<meals, totals, events, ledger, nops>>
    ELSE /\ totals' = [d \in DOMAIN totals \cup {dt} |-> IF d = dt THEN ZeroMac ELSE totals[d]]
         /\ events' = put_event(events, now, "totals.reset")
         /\ ledger' = [ledger EXCEPT ![dt].reset = TRUE]
         /\ out' = Sent(<<Reply("reset")>>)
         /\ UNCHANGED <<meals, nops>>

\* str.lower() on the words the model types
Lower(w) ==
    CASE w = "SET" -> "set"
      [] w = "Canned" -> "canned"
      [] w = "TUNA" -> "tuna"
      [] OTHER -> w

\* a variant that keeps the first word only
norm_alias_first_word(toks) == IF toks = <<>> THEN "" ELSE Lower(toks[1].w)

\* _norm_alias(" ".join(tokens)): the tokens in lower case, one space between
RECURSIVE norm_alias(_)
norm_alias(toks) ==
    IF toks = <<>> THEN ""
    ELSE IF Len(toks) = 1 THEN Lower(toks[1].w)
    ELSE Lower(toks[1].w) \o " " \o norm_alias(Tail(toks))

\* _parse_macros_arg: the loop over the tokens; a token without "=" or with an
\* unknown key is skipped, a later value of a key replaces an earlier one
RECURSIVE parse_macros_arg(_, _)
parse_macros_arg(toks, acc) ==
    IF toks = <<>> THEN acc
    ELSE LET tok == Head(toks)
             next == IF ~tok.eq THEN acc
                     ELSE IF tok.k \in {"k", "kcal", "cal", "calories"}
                     THEN [acc EXCEPT !.calories = tok.v]
                     ELSE IF tok.k \in {"p", "protein", "prot"}
                     THEN [acc EXCEPT !.protein = tok.v]
                     ELSE IF tok.k \in {"c", "carbs", "carb"}
                     THEN [acc EXCEPT !.carbs = tok.v]
                     ELSE IF tok.k \in {"f", "fat"}
                     THEN [acc EXCEPT !.fat = tok.v]
                     ELSE acc
         IN  parse_macros_arg(Tail(toks), next)

\* the index of the first token with "=" from the third on, 0 when none has
RECURSIVE macro_start(_, _)
macro_start(parts, idx) ==
    IF idx > Len(parts) THEN 0
    ELSE IF parts[idx].eq THEN idx
    ELSE macro_start(parts, idx + 1)

\* _handle_food on the tokens of its arguments; lambda_handler passes it no
\* simulate flag
handle_food(sender, parts) ==
    /\ UNCHANGED <<meals, totals, events, ledger, nops>>
    /\ IF parts = <<>>
       THEN out' = Sent(<<Reply("usage_food")>>) /\ UNCHANGED overrides
       ELSE IF Lower(parts[1].w) = "list"
       THEN /\ out' = Sent(<<Reply(IF DOMAIN overrides = {} THEN "no_custom_foods"
                                   ELSE "custom_foods")>>)
            /\ UNCHANGED overrides
       ELSE IF Lower(parts[1].w) = "del" /\ Len(parts) >= 2
       THEN /\ overrides' = del_override(overrides, norm_alias(Tail(parts)))
            /\ out' = Sent(<<[Reply("deleted_food") EXCEPT !.cat = norm_alias(Tail(parts))]>>)
       ELSE IF Lower(parts[1].w) = "set" /\ Len(parts) >= 3
       THEN LET start == macro_start(parts, 3)
                alias == norm_alias(SubSeq(parts, 2, start - 1))
                macros == parse_macros_arg(SubSeq(parts, start, Len(parts)), ZeroMac)
            IN  IF start = 0
                THEN out' = Sent(<<Reply("provide_macros")>>) /\ UNCHANGED overrides
                ELSE IF macros.calories + macros.protein + macros.carbs + macros.fat = 0
                THEN out' = Sent(<<Reply("provide_macros")>>) /\ UNCHANGED overrides
                ELSE /\ overrides' = put_override(overrides, alias, macros)
                     /\ out' = Sent(<<[Reply("saved_food") EXCEPT !.cat = alias]>>)
       ELSE out' = Sent(<<Reply("usage_food")>>) /\ UNCHANGED overrides

(* ------------------------------------------------------------------ *)
(* Episode tracking: migraines and fasts                               *)
(* ------------------------------------------------------------------ *)
\* Limit of the open-episode queries
OPEN_QUERY_LIMIT == 25
\* the default of _get_fast_goal_hours
DEFAULT_GOAL_HOURS == 16

\* _open_episode / _open_fast: the query returns at most OPEN_QUERY_LIMIT items in
\* descending order of the sort key, a hash of the start time, and the first open
\* one is taken.  The hash order is not modelled: the result is any open episode,
\* or None when none is open or enough closed ones can fill the page before it.
None == [start_ms |-> -1]
\* a query that takes the first episode of the page, open or not
OpenResultsAny(tbl) == tbl \cup (IF tbl = {} THEN {None} ELSE {})

OpenResults(tbl) ==
    LET open == {e \in tbl : e.is_open = 1}
    IN  open \cup (IF open = {} \/ Cardinality(tbl \ open) >= OPEN_QUERY_LIMIT
                   THEN {None} ELSE {})

\* durations in whole minutes: max(0, int((when - start) / 60000))
DurMin(when_ms, start_ms) == Max(0, (when_ms - start_ms) \div 60000)

\* update_item SET on the episode with the key of ep
UpdateEpisode(tbl, ep, new) == (tbl \ {ep}) \cup {new}

\* a variant whose put has no condition: an item of the same key is replaced
start_migraine_put(sender, when_ms, cat, note) ==
    /\ UNCHANGED <<fasts, fastgoal, events, meds>>
    /\ nops.episodes < MaxEpisodeOps
    /\ migs' = {e \in migs : e.start_ms # when_ms}
                 \cup {[start_ms |-> when_ms, end_ms |-> as_decimal(0),
                        category |-> cat, notes |-> note,
                        is_open |-> as_decimal(1), meds |-> <<>>]}
    /\ nops' = Count("episodes")
    /\ out' = Sent(<<Reply("migraine_started")>>)

\* _start_migraine: conditional put keyed by the hash of the start time; the
\* ConditionalCheckFailed exception of an existing key is not caught
start_migraine(sender, when_ms, cat, note) ==
    /\ UNCHANGED <<fasts, fastgoal, events, meds>>
    /\ IF \E e \in migs : e.start_ms = when_ms
       THEN /\ out' = Raised
            /\ UNCHANGED <<migs, nops>>
       ELSE /\ nops.episodes < MaxEpisodeOps
            /\ migs' = migs \cup {[start_ms |-> when_ms, end_ms |-> as_decimal(0),
                                   category |-> cat, notes |-> note,
                                   is_open |-> as_decimal(1), meds |-> <<>>]}
            /\ nops' = Count("episodes")
            /\ out' = Sent(<<Reply("migraine_started")>>)

\* a variant that always puts the space between the two notes
join_notes_spaced(existing, incoming) == existing \o " " \o incoming

\* the notes an End stores: existing and incoming joined by one space when both
\* are non-empty
join_notes(existing, incoming) ==
    existing \o (IF existing # "" /\ incoming # "" THEN " " ELSE "") \o incoming

\* _end_migraine
end_migraine(sender, when_ms, note) ==
    /\ UNCHANGED <<fasts, fastgoal, events, meds>>
    /\ \E ep \in OpenResults(migs) :
        IF ep = None
        THEN /\ out' = Sent(<<Reply("no_open_migraine")>>)
             /\ UNCHANGED <<migs, nops>>
        ELSE LET combined == join_notes(ep.notes, note)
             IN  /\ nops.episodes < MaxEpisodeOps
                 /\ migs' = UpdateEpisode(migs, ep,
                        [ep EXCEPT !.end_ms = as_decimal(when_ms),
                                   !.is_open = as_decimal(0),
                                   !.notes = IF combined # "" THEN combined ELSE @])
                 /\ nops' = Count("episodes")
                 /\ out' = Sent(<<ReplyN("migraine_ended", DurMin(when_ms, ep.start_ms))>>)

\* _handle_migraine on "", "start [when] [category] [note]", "end [when] [note]"
\* and any other subcommand; when_ms is the instant the when-phrase resolves to
handle_migraine(sender, sub, when_ms, cat, note, simulate) ==
    IF sub = "start"
    THEN IF simulate \/ DRY_RUN
         THEN /\ out' = Sent(<<Reply("test_migraine_start")>>)
              /\ UNCHANGED <<migs, fasts, fastgoal, events, meds, nops>>
         ELSE start_migraine(sender, when_ms, cat, note)
    ELSE IF sub = "end"
    THEN IF simulate \/ DRY_RUN
         THEN /\ out' = Sent(<<Reply("test_migraine_end")>>)
              /\ UNCHANGED <<migs, fasts, fastgoal, events, meds, nops>>
         ELSE end_migraine(sender, when_ms, note)
    ELSE /\ out' = Sent(<<Reply("usage_migraine")>>)
         /\ UNCHANGED <<migs, fasts, fastgoal, events, meds, nops>>

\* _get_fast_goal_hours
get_fast_goal_hours == IF fastgoal # NoGoal THEN fastgoal ELSE DEFAULT_GOAL_HOURS

\* _start_fast: conditional put (uncaught when the key exists), then the event
start_fast(sender, when_ms) ==
    /\ UNCHANGED <<migs, fastgoal, meds>>
    /\ IF \E e \in fasts : e.start_ms = when_ms
       THEN /\ out' = Raised
            /\ UNCHANGED <<fasts, events, nops>>
       ELSE /\ nops.episodes < MaxEpisodeOps
            /\ fasts' = fasts \cup {[start_ms |-> when_ms, end_ms |-> as_decimal(0),
                                     is_open |-> as_decimal(1)]}
            /\ events' = put_event(events, now, "fast.start")
            /\ nops' = Count("episodes")
            /\ out' = Sent(<<Reply("fast_started")>>)

\* _end_fast
end_fast(sender, when_ms) ==
    /\ UNCHANGED <<migs, fastgoal, meds>>
    /\ \E ep \in OpenResults(fasts) :
        IF ep = None
        THEN /\ out' = Sent(<<Reply("no_open_fast")>>)
             /\ UNCHANGED <<fasts, events, nops>>
        ELSE LET dur_min == DurMin(when_ms, ep.start_ms)
             IN  /\ nops.episodes < MaxEpisodeOps
                 /\ fasts' = UpdateEpisode(fasts, ep,
                        [ep EXCEPT !.end_ms = as_decimal(when_ms), !.is_open = as_decimal(0)])
                 /\ events' = put_event(events, now, "fast.end")
                 /\ nops' = Count("episodes")
                 /\ out' = Sent(<<[kind |-> "fast_ended",
                                   warn |-> IF dur_min >= get_fast_goal_hours * 60
                                            THEN {"met_goal"} ELSE {"short"},
                                   n |-> dur_min, cat |-> ""]>>)

\* _fast_status: the open fast, else the last completed one, else no history
fast_status(sender) ==
    /\ UNCHANGED <<migs, fasts, fastgoal, events, meds, nops>>
    /\ \E ep \in OpenResults(fasts) :
        IF ep # None
        THEN out' = Sent(<<ReplyN("fasting_open", DurMin(now, ep.start_ms))>>)
        ELSE IF \E e \in fasts : e.is_open = 0 /\ e.end_ms > 0
        THEN out' = Sent(<<Reply("last_fast")>>)
        ELSE out' = Sent(<<Reply("no_fasting_history")>>)

\* _handle_fast on "", "goal [hours]", "status", "start [when]", "end [when]" and
\* any other subcommand; hours = NoGoal stands for a missing or malformed number
handle_fast(sender, sub, when_ms, hours, simulate) ==
    IF sub = "goal"
    THEN /\ UNCHANGED <<migs, fasts, events, meds, nops>>
         /\ IF hours = NoGoal
            THEN out' = Sent(<<Reply("usage_fast_goal")>>) /\ UNCHANGED fastgoal
            ELSE IF simulate \/ DRY_RUN
            THEN out' = Sent(<<Reply("test_fast_goal")>>) /\ UNCHANGED fastgoal
            ELSE fastgoal' = as_decimal(hours) /\ out' = Sent(<<Reply("fast_goal_set")>>)
    ELSE IF sub = "status"
    THEN fast_status(sender)
    ELSE IF sub \in {"start", "end"}
    THEN IF simulate \/ DRY_RUN
         THEN /\ out' = Sent(<<Reply("test_fast")>>)
              /\ UNCHANGED <<migs, fasts, fastgoal, events, meds, nops>>
         ELSE IF sub = "start" THEN start_fast(sender, when_ms)
         ELSE end_fast(sender, when_ms)
    ELSE /\ out' = Sent(<<Reply("usage_fast")>>)
         /\ UNCHANGED <<migs, fasts, fastgoal, events, meds, nops>>

(* ------------------------------------------------------------------ *)
(* Medication logging                                                  *)
(* ------------------------------------------------------------------ *)
\* NEAR_THRESH_PCT (0.75), in hundredths
NEAR_THRESH_PCT == 75
NoLimit == 0

\* MED_CATS, for the names the model gives to /med
TRIPTANS == {"sumatriptan", "rizatriptan"}
DHES == {"dihydroergotamine", "migranal", "dhe"}
PAIN_MEDS == {"ibuprofen", "advil", "tylenol"}

\* _classify_med: the category of the first name found in the text
classify_med(text) ==
    IF text \in TRIPTANS THEN "triptan"
    ELSE IF text \in DHES THEN "DHE"
    ELSE IF text = "excedrin" THEN "excedrin"
    ELSE IF text \in PAIN_MEDS THEN "normal pain med"
    ELSE IF text = "zofran" THEN "zofran"
    ELSE "unknown"

\* _med_category_key: the lower-cased category, with its aliases folded
med_category_key(cat) ==
    IF cat = "triptan" THEN "triptan"
    ELSE IF cat \in {"DHE", "dhe", "d.h.e.", "d.h.e"} THEN "dhe"
    ELSE IF cat = "excedrin" THEN "excedrin"
    ELSE IF cat \in {"normal pain med", "nsaid", "ibuprofen", "tylenol"} THEN "normal pain med"
    ELSE IF cat = "" THEN "unknown"
    ELSE cat

\* _med_limits_for: the monthly ceiling, NoLimit for a category without one
med_limits_for(cat_key) ==
    IF cat_key = "triptan" THEN TRIPTAN_LIMIT_DPM
    ELSE IF cat_key = "dhe" THEN DHE_LIMIT_DPM
    ELSE IF cat_key = "excedrin" THEN COMBO_LIMIT_DPM
    ELSE IF cat_key = "normal pain med" THEN PAIN_LIMIT_DPM
    ELSE NoLimit

\* _month_bounds_est: the first day of the clock's month (1970: January has 31
\* days, February 28) and the clock's day
MonthStart(day) == IF day < 31 THEN 0 ELSE IF day < 59 THEN 31 ELSE 59
month_bounds_est == [start |-> MonthStart(today_est_from_ts(now)),
                     end |-> today_est_from_ts(now)]

\* _count_med_doses_this_month: the doses of the category whose day lies between
\* the first of the month and today
count_med_doses_this_month(tbl, cat_key) ==
    Cardinality({it \in tbl : /\ it.dt >= month_bounds_est.start
                              /\ it.dt <= month_bounds_est.end
                              /\ med_category_key(it.category) = cat_key})

\* round(would_be / limit, 2), in hundredths (ties to even)
RoundPct(would_be, limit) ==
    LET q == (100 * would_be) \div limit
        r == (100 * would_be) % limit
    IN  IF 2 * r > limit \/ (2 * r = limit /\ q % 2 = 1) THEN q + 1 ELSE q

\* put_item on the meds table: one item per sort key dt#when_ms
put_med(tbl, item) == {it \in tbl : it.ts_ms # item.ts_ms} \cup {item}

\* the doses the 24h check reads: those of the day of the dose and of the day 24
\* hours before it, kept when less than 24 hours away
recent_cats(tbl, when_ms) ==
    LET dates_to_check == {today_est_from_ts(when_ms), today_est_from_ts(when_ms - DAY_MS)}
    IN  {it \in tbl : /\ it.dt \in dates_to_check
                      /\ Abs(when_ms - it.ts_ms) < DAY_MS}

\* the warnings of the 24h interaction check
interaction_warnings(tbl, when_ms, cat_key) ==
    LET recent == recent_cats(tbl, when_ms)
    IN  (IF cat_key = "triptan"
            /\ \E it \in recent : med_category_key(it.category) \in {"dhe", "triptan"}
         THEN {"triptan_24h"} ELSE {})
        \cup
        (IF cat_key = "dhe"
            /\ \E it \in recent : med_category_key(it.category) = "triptan"
         THEN {"dhe_24h"} ELSE {})

\* the warnings of the monthly limit check; used_doses is counted after the put
limit_warnings(tbl, cat_key) ==
    LET limit == med_limits_for(cat_key)
        would_be == count_med_doses_this_month(tbl, cat_key) + 1
    IN  IF limit = NoLimit THEN {}
        ELSE IF would_be > limit THEN {"over_limit"}
        ELSE IF RoundPct(would_be, limit) >= NEAR_THRESH_PCT THEN {"near_limit"}
        ELSE {}

\* _log_med: put the dose, link it to the open migraine, check, reply
log_med(sender, when_ms, text_after) ==
    LET cat_key == med_category_key(classify_med(text_after))
        item == [ts_ms |-> as_decimal(when_ms), dt |-> today_est_from_ts(when_ms),
                 category |-> cat_key, text |-> text_after]
        tbl == put_med(meds, item)
    IN  /\ nops.doses < MaxDoses
        /\ meds' = tbl
        /\ nops' = Count("doses")
        /\ UNCHANGED <<fasts, fastgoal, events>>
        /\ \E ep \in OpenResults(migs) :
            /\ migs' = IF ep = None THEN migs
                       ELSE UpdateEpisode(migs, ep, [ep EXCEPT !.meds = Append(@, item)])
            /\ out' = Sent(<<[kind |-> "logged_med",
                              warn |-> interaction_warnings(tbl, when_ms, cat_key)
                                       \cup limit_warnings(tbl, cat_key)
                                       \cup (IF ep = None THEN {} ELSE {"linked"}),
                              n |-> IF med_limits_for(cat_key) = NoLimit THEN 0
                                    ELSE count_med_doses_this_month(tbl, cat_key),
                              cat |-> cat_key]>>)

\* a /med that logs whatever is left of its arguments
handle_med_unchecked(sender, when_ms, text_after, simulate) ==
    IF simulate \/ DRY_RUN
    THEN /\ out' = Sent(<<Reply("test_med")>>)
         /\ UNCHANGED <<migs, fasts, fastgoal, events, meds, nops>>
    ELSE log_med(sender, when_ms, text_after)

\* _handle_med: text_after is what is left of the arguments without the
\* when-phrase, "" when nothing is; when_ms is the instant the phrase resolves to
handle_med(sender, when_ms, text_after, simulate) ==
    IF text_after = ""
    THEN /\ out' = Sent(<<Reply("usage_med")>>)
         /\ UNCHANGED <<migs, fasts, fastgoal, events, meds, nops>>
    ELSE IF simulate \/ DRY_RUN
    THEN /\ out' = Sent(<<Reply("test_med")>>)
         /\ UNCHANGED <<migs, fasts, fastgoal, events, meds, nops>>
    ELSE log_med(sender, when_ms, text_after)

(* ------------------------------------------------------------------ *)
(* Range sums: /week and /month                                        *)
(* ------------------------------------------------------------------ *)
\* the loop of _sum_range over the rows the query returned
RECURSIVE SumRows(_, _)
SumRows(tbl, rows) ==
    IF rows = {} THEN ZeroMac
    ELSE LET d == CHOOSE x \in rows : TRUE
         IN  MacAdd(tbl[d], SumRows(tbl, rows \ {d}))

\* round(n / d, 1) for n >= 0, d > 0, in tenths (ties to even)
RoundTenths(n, d) ==
    LET q == (10 * n) \div d
        r == (10 * n) % d
    IN  IF 2 * r > d \/ (2 * r = d /\ q % 2 = 1) THEN q + 1 ELSE q

\* range sums from the rows with a key in [lo, hi]
RangeResult(tbl, lo, hi, days) ==
    LET sum == SumRows(tbl, {d \in DOMAIN tbl : lo <= d /\ d <= hi})
    IN  [cal |-> sum.calories, pro |-> sum.protein, carb |-> sum.carbs, fat |-> sum.fat,
         days |-> days,
         avg_cal |-> RoundTenths(sum.calories, days),
         avg_pro |-> RoundTenths(sum.protein, days)]

\* a range sum whose query leaves the end day out
sum_range_open(tbl, start_d, end_d) ==
    RangeResult(tbl, start_d, end_d - 1, (end_d - start_d) + 1)

\* _sum_range: the rows with a key between start_d and end_d, both included
sum_range(tbl, start_d, end_d) ==
    RangeResult(tbl, start_d, end_d, (end_d - start_d) + 1)

\* a reply that reports a range sum
ReplySum(kind, s) == [kind |-> kind, warn |-> {}, n |-> 0, cat |-> "", sum |-> s]

\* _handle_week: the seven days that end today
handle_week(sender) ==
    LET today == today_est_from_ts(now)
    IN  out' = Sent(<<ReplySum("week", sum_range(totals, today - 6, today))>>)

\* _handle_month: the first of the month to today
handle_month(sender) ==
    out' = Sent(<<ReplySum("month",
                           sum_range(totals, month_bounds_est.start, month_bounds_est.end))>>)

(* ------------------------------------------------------------------ *)
(* Migraine facts: the config item, /facts, and the hourly sender      *)
(* ------------------------------------------------------------------ *)
\* meal_enricher.FACTS_DEFAULT_HOUR and facts_sender.DEFAULT_DAILY_HOUR
FACTS_DEFAULT_HOUR == 9
DEFAULT_DAILY_HOUR == 9

\* datetime.now(TZ).hour: the local hour of an instant
hour_est(ts_ms) == ((ts_ms - TZ_OFFSET_MS) % DAY_MS) \div HOUR_MS

\* the argument after "/facts on" and "/facts hour": none, a word, an integer
HourArg(kind, n) == [kind |-> kind, n |-> n]
NoArg == HourArg("none", 0)
HourArgs == {NoArg, HourArg("word", 0), HourArg("int", -3), HourArg("int", 8),
             HourArg("int", 30)}
\* the argument of "/facts number"
Targets == {"whatsapp:+1666"}
\* sort keys of the facts that facts_ingest writes
FactIds == {"fact#a"}

\* a variant that stores the integer as given
normalize_hour_unclamped(arg) ==
    IF arg.kind = "int" THEN arg.n ELSE FACTS_DEFAULT_HOUR

\* _normalize_hour: an integer clamped to 0..23, FACTS_DEFAULT_HOUR for a word
normalize_hour(arg) ==
    IF arg.kind = "int"
    THEN Max(0, IF arg.n <= 23 THEN arg.n ELSE 23)
    ELSE FACTS_DEFAULT_HOUR

\* _fact_set_config: the stored item with the given attributes replaced
fact_set_config(item, kw) ==
    [a \in DOMAIN item |-> IF a \in DOMAIN kw THEN kw[a] ELSE item[a]]

\* _handle_facts.  A stored daily_hour comes back from DynamoDB as a Decimal,
\* which the reply's "{hour:02d}" cannot format: "/facts on" without an hour
\* raises there when the item carries an hour (after the write, when it writes)
handle_facts(sender, sub, arg, target, simulate) ==
    LET cfg == factscfg
        test == simulate \/ DRY_RUN
    IN  IF sub = ""
        THEN out' = Sent(<<Reply("facts_help")>>) /\ UNCHANGED factscfg
        ELSE IF sub = "status"
        THEN out' = Sent(<<Reply("facts_status")>>) /\ UNCHANGED factscfg
        ELSE IF sub = "on"
        THEN LET stored == arg.kind = "none" /\ cfg.daily_hour # NoHour
                 hour == IF arg.kind # "none" THEN normalize_hour(arg)
                         ELSE IF stored THEN cfg.daily_hour ELSE FACTS_DEFAULT_HOUR
             IN  /\ factscfg' = IF test THEN factscfg
                                ELSE fact_set_config(cfg, [daily_enabled |-> TRUE,
                                                           daily_hour |-> hour,
                                                           to_number |-> sender])
                 /\ out' = IF stored THEN Raised
                           ELSE Sent(<<ReplyN(IF test THEN "test_facts_on" ELSE "facts_on",
                                              hour)>>)
        ELSE IF sub = "off"
        THEN /\ factscfg' = IF test THEN factscfg
                            ELSE fact_set_config(cfg, [daily_enabled |-> FALSE])
             /\ out' = Sent(<<Reply(IF test THEN "test_facts_off" ELSE "facts_off")>>)
        ELSE IF sub = "hour" /\ arg.kind # "none"
        THEN /\ factscfg' = IF test THEN factscfg
                            ELSE fact_set_config(cfg, [daily_hour |-> normalize_hour(arg)])
             /\ out' = Sent(<<ReplyN(IF test THEN "test_facts_hour" ELSE "facts_hour",
                                     normalize_hour(arg))>>)
        ELSE IF sub = "number" /\ target # ""
        THEN /\ factscfg' = IF test THEN factscfg
                            ELSE fact_set_config(cfg, [to_number |-> target])
             /\ out' = Sent(<<Reply(IF test THEN "test_facts_number" ELSE "facts_number")>>)
        ELSE out' = Sent(<<Reply("usage_facts")>>) /\ UNCHANGED factscfg

\* facts_ingest._put_fact: one row of an uploaded CSV
put_fact(tbl, fid) == tbl \cup {fid}

\* facts_sender._set_config_item: the stored item with the attributes replaced
set_config_item(item, kw) ==
    [a \in DOMAIN item |-> IF a \in DOMAIN kw THEN kw[a] ELSE item[a]]

\* _hourly_tick up to its send, without the hour test
tick_skip_reason_any_hour(cfg, factset, today, hour) ==
    IF ~cfg.daily_enabled \/ cfg.to_number = "" THEN "disabled or no to_number"
    ELSE IF cfg.last_sent_dt = today THEN "already sent today"
    ELSE IF factset = {} THEN "no facts available"
    ELSE ""

\* _hourly_tick up to its send: the reason it skips for, "" when it goes on
tick_skip_reason(cfg, factset, today, hour) ==
    LET send_hour == IF cfg.daily_hour = NoHour THEN DEFAULT_DAILY_HOUR
                     ELSE cfg.daily_hour
    IN  IF ~cfg.daily_enabled \/ cfg.to_number = "" THEN "disabled or no to_number"
        ELSE IF cfg.last_sent_dt = today THEN "already sent today"
        ELSE IF hour # send_hour THEN "wrong hour"
        ELSE IF factset = {} THEN "no facts available"
        ELSE ""

\* one _send_wa call: Twilio takes the message or answers with an error status,
\* which is logged and not raised
send_wa(log, today, ok) == log (+) SetToBag({[day |-> today, ok |-> ok]})

\* _hourly_tick, run to completion with no other invocation in flight
hourly_tick(p) ==
    LET today == today_est_from_ts(now)
        reason == tick_skip_reason(factscfg, facts, today, hour_est(now))
    IN  IF reason # ""
        THEN /\ ticks' = [ticks EXCEPT ![p] = IdleTick(reason)]
             /\ UNCHANGED <<factscfg, sent>>
        ELSE \E ok \in BOOLEAN :
                /\ sent' = send_wa(sent, today, ok)
                /\ factscfg' = set_config_item(factscfg, [last_sent_dt |-> today])
                /\ ticks' = [ticks EXCEPT ![p] = IdleTick("sent")]

(* ------------------------------------------------------------------ *)
(* Concurrent invocations of lambda_handler: a meal or an undo as the   *)
(* sequence of its store operations                                     *)
(* ------------------------------------------------------------------ *)
\* the meal messages of the concurrent model (text, timestamp, Nutritionix
\* answer), all of one day; two invocations may carry the same one
ConcurrentMeals ==
    {<<MealText(0, "eggs", <<"eggs">>), AtHour(24 + 9 + 5),
       [kind |-> "http", status |-> 200, foods |-> <<NxFoodA>>]>>,
     <<MealText(0, "toast", <<"toast">>), AtHour(24 + 9 + 5),
       [kind |-> "http", status |-> 200, foods |-> <<NxFoodA, NxFoodB>>]>>,
     <<MealText(0, "xyzzy", <<"xyzzy">>), AtHour(24 + 9 + 5),
       [kind |-> "http", status |-> 404, foods |-> <<>>]>>}

\* whether another invocation is between its first and its last store operation
OthersInFlight(w) == \E v \in WorkerIds \ {w} : workers[v].pc \notin {"idle", "done"}

(* ------------------------------------------------------------------ *)
(* lambda_handler: one inbound message, routed by its text              *)
(* ------------------------------------------------------------------ *)
\* "meal: <text>"
OnMeal(inputs, senders, sims) ==
    \E sender \in senders, in \in inputs, sim \in sims, resp \in NxResponses :
        LET text == in[1]
            ts == in[2]
        IN  /\ msg' = MealMsg(sim, today_est_from_ts(ts), ts, text, resp)
            /\ IF text = NoText
               THEN /\ out' = Sent(<<Reply("try_meal")>>)
                    /\ UNCHANGED <<meals, totals, events, ledger, nops>>
               ELSE handle_meal(sender, today_est_from_ts(ts), ts, text, sim, resp)
            /\ UNCHANGED <<now, overrides, migs, fasts, fastgoal, meds, bg>>

\* "/undo"
OnUndo(times, senders, sims) ==
    \E sender \in senders, ts \in times, sim \in sims :
        /\ msg' = Msg("undo", sim)
        /\ handle_undo(sender, today_est_from_ts(ts), sim)
        /\ UNCHANGED <<now, overrides, migs, fasts, fastgoal, meds, bg>>

\* "/reset today"
OnResetToday(times, senders, sims) ==
    \E sender \in senders, ts \in times, sim \in sims :
        /\ msg' = Msg("reset", sim)
        /\ handle_reset_today(sender, today_est_from_ts(ts), sim)
        /\ UNCHANGED <<now, overrides, migs, fasts, fastgoal, meds, bg>>

\* a meal, "/undo" or "/reset today" without the /test marker, whose reply meets
\* one of the given answers of the messaging gateway
OnMealCommandVia(gateways, inputs, responses, senders) ==
    \E gw \in gateways, sender \in senders, cmd \in {"meal", "undo", "reset"} :
    \E in \in IF cmd = "meal" THEN inputs ELSE {i \in inputs : i[1] = NoText},
       resp \in IF cmd = "meal" THEN responses ELSE {CHOOSE r \in responses : TRUE} :
        LET text == in[1]
            ts == in[2]
            dt == today_est_from_ts(ts)
        IN  /\ msg' = [(IF cmd = "meal" THEN MealMsg(FALSE, dt, ts, text, resp)
                        ELSE Msg(cmd, FALSE)) EXCEPT !.gateway = gw]
            /\ CASE cmd = "meal" -> handle_meal(sender, dt, ts, text, FALSE, resp)
                 [] cmd = "undo" -> handle_undo(sender, dt, FALSE)
                 [] cmd = "reset" -> handle_reset_today(sender, dt, FALSE)
            /\ UNCHANGED <<now, overrides, migs, fasts, fastgoal, meds, bg>>

\* the text after the "/test " marker is stripped, as the dispatch chain sees it:
\* kw is the command keyword the text starts with ("" when it starts with none),
\* rest is what follows the keyword: nothing, a colon alone, or a space and then words
QueryKeywords == {"", "help", "/summary", "/barcode", "/week", "/lookup"}
Rests == {"", ":", " x"}

\* the dispatch chain of lambda_handler: the handler a text goes to, `unmatched`
\* when no branch takes it. /help, /week, /month, /undo and /reset today match
\* the whole text, /lookup and meal need a colon or a space after the keyword,
\* the others match as a prefix; /meds, /meds today and /meds month match the
\* whole text, and a longer text that begins with them matches the prefix /med
route_to(kw, rest, unmatched) ==
    IF kw \in {"/help", "help"} THEN (IF rest = "" THEN "help" ELSE unmatched)
    ELSE IF kw \in {"/summary", "/barcode", "/food", "/migraine", "/med", "/facts",
                    "/fact", "/fast"}
    THEN CHOOSE c \in {"summary", "barcode", "food", "migraine", "med", "facts", "fact",
                       "fast"} : kw = "/" \o c
    ELSE IF kw \in {"/week", "/month", "/undo"}
    THEN (IF rest = "" THEN CHOOSE c \in {"week", "month", "undo"} : kw = "/" \o c
          ELSE unmatched)
    ELSE IF kw = "/reset today" THEN (IF rest = "" THEN "reset" ELSE unmatched)
    ELSE IF kw \in {"/meds", "/meds today", "/meds month"}
    THEN (IF rest = "" THEN "meds" ELSE "med")
    ELSE IF kw \in {"/lookup", "meal"}
    THEN (IF rest \in {":", " x"}
          THEN (IF kw = "meal" THEN "meal" ELSE "lookup") ELSE unmatched)
    ELSE unmatched

\* a variant whose last branch runs the help command
route_else_help(kw, rest) == route_to(kw, rest, "help")

\* the last branch of the chain is the "Unrecognized" hint
route(kw, rest) == route_to(kw, rest, "other")

\* "/help", "/summary", "/lookup: <text>", "/barcode <digits>" and a text that is
\* no command: the router passes none of their handlers the simulate flag
OnQuery(cmds, texts, responses, senders, sims) ==
    \E sender \in senders, sim \in sims, kw \in QueryKeywords, rest \in Rests :
    LET cmd == route(kw, rest) IN
    \E text \in IF cmd = "lookup" /\ rest # ":" THEN texts \ {NoText} ELSE {NoText},
       resp \in IF cmd = "lookup" THEN responses ELSE {CHOOSE r \in responses : TRUE},
       ndigits \in IF cmd = "barcode" THEN BarcodeLengths ELSE {0},
       found \in IF cmd = "barcode" THEN BOOLEAN ELSE {FALSE} :
        /\ cmd \in cmds
        /\ msg' = [Msg(cmd, sim) EXCEPT
                      !.text = text, !.kw = kw, !.rest = rest,
                      !.args = IF cmd = "barcode"
                               THEN <<[Word("digits") EXCEPT !.v = ndigits]>> ELSE <<>>]
        /\ CASE cmd = "help" -> out' = Sent(<<Reply("help")>>)
             [] cmd = "summary" -> handle_summary(sender, today_est_from_ts(now))
             [] cmd = "lookup" ->
                  IF text = NoText THEN out' = Sent(<<Reply("usage_lookup")>>)
                  ELSE handle_lookup(sender, today_est_from_ts(now), resp)
             [] cmd = "barcode" -> handle_barcode(sender, ndigits, found)
             [] OTHER -> out' = Sent(<<Reply("unrecognized")>>)
        /\ UNCHANGED <<now, store, ledger, nops, bg>>

\* "/food ...": the router passes the handler no simulate flag
OnFood(commands, senders, sims) ==
    \E sender \in senders, sim \in sims, parts \in commands :
        /\ msg' = [Msg("food", sim) EXCEPT !.args = parts]
        /\ handle_food(sender, parts)
        /\ UNCHANGED <<now, migs, fasts, fastgoal, meds, bg>>

\* "/week"
OnWeek(senders, sims) ==
    \E sender \in senders, sim \in sims :
        /\ msg' = Msg("week", sim)
        /\ handle_week(sender)
        /\ UNCHANGED <<now, store, ledger, nops, bg>>

\* "/month"
OnMonth(senders, sims) ==
    \E sender \in senders, sim \in sims :
        /\ msg' = Msg("month", sim)
        /\ handle_month(sender)
        /\ UNCHANGED <<now, store, ledger, nops, bg>>

\* "/migraine ...": the when-phrase resolves to one of whens or to the clock
OnMigraine(subs, whens, start_notes, senders, sims) ==
    \E sender \in senders, sim \in sims, sub \in subs :
    \E when_ms \in IF sub \in {"start", "end"} THEN whens \cup {now} ELSE {now},
       cat \in IF sub = "start" /\ ~sim THEN MigCats ELSE {"non-aura"},
       note \in IF sim THEN {""} ELSE IF sub = "start" THEN start_notes
                ELSE IF sub = "end" THEN Notes ELSE {""} :
        /\ msg' = [StartMsg("migraine", sim, sub, migs, when_ms) EXCEPT
                      !.args = IF note = "" THEN <<>> ELSE <<Word(note)>>]
        /\ handle_migraine(sender, sub, when_ms, cat, note, sim)
        /\ UNCHANGED <<now, meals, totals, overrides, ledger, bg>>

\* "/migraine start <when-phrase>" and "/migraine end <when-phrase>": the handler
\* parses the phrase before anything else, and nothing catches its exception
OnMigraineAt(subs, phrases, senders, sims) ==
    \E sender \in senders, sim \in sims, sub \in subs, phrase \in phrases :
    LET res == parse_when_to_ms(phrase, now) IN
        /\ msg' = [StartMsg("migraine", sim, sub, migs, res.ms) EXCEPT
                      !.when = [phrase |-> phrase, raised |-> res.raised, ms |-> res.ms]]
        /\ IF res.raised
           THEN /\ out' = Raised
                /\ UNCHANGED <<migs, fasts, fastgoal, events, meds, nops>>
           ELSE handle_migraine(sender, sub, res.ms, "non-aura", "", sim)
        /\ UNCHANGED <<now, meals, totals, overrides, ledger, bg>>

\* "/fast ..."
OnFast(subs, whens, senders, sims) ==
    \E sender \in senders, sim \in sims, sub \in subs :
    \E when_ms \in IF sub \in {"start", "end"} THEN whens \cup {now} ELSE {now},
       hours \in IF sub = "goal" THEN GoalHours ELSE {-1} :
        /\ msg' = [StartMsg("fast", sim, sub, fasts, when_ms) EXCEPT
                      !.args = IF sub = "goal" /\ hours # NoGoal
                               THEN <<Word(ToString(hours))>> ELSE <<>>]
        /\ handle_fast(sender, sub, when_ms, hours, sim)
        /\ UNCHANGED <<now, meals, totals, overrides, ledger, bg>>

\* "/med ..."
OnMed(names, whens, senders, sims) ==
    \E sender \in senders, sim \in sims, text \in names, when_ms \in whens :
        /\ msg' = [Msg("med", sim) EXCEPT
                      !.args = IF text = "" THEN <<>> ELSE <<Word(text)>>]
        /\ handle_med(sender, when_ms, text, sim)
        /\ UNCHANGED <<now, meals, totals, overrides, ledger, bg>>

\* texts that begin with /meds
MedsKeywords == {"/meds", "/meds today", "/meds month"}
MedsRests == {"", ":", " week"}

\* raw_text.split(" ", 1)[1] if " " in raw_text else "": the arguments _handle_med
\* gets from a text that begins with /meds
meds_args(kw, rest) ==
    IF kw = "/meds" THEN (IF rest = " week" THEN "week" ELSE "")
    ELSE (IF kw = "/meds today" THEN "today" ELSE "month") \o rest

\* _handle_meds, _handle_meds_today, _handle_meds_month: the summary of the doses
handle_meds(sender) ==
    /\ out' = Sent(<<Reply("meds_summary")>>)
    /\ UNCHANGED <<migs, fasts, fastgoal, events, meds, nops>>

\* a text that begins with /meds: the summaries on an exact match, otherwise the
\* branch of /med, with no when-phrase (none of the arguments is one)
OnMeds(kws, rests, senders, sims) ==
    \E sender \in senders, sim \in sims, kw \in kws, rest \in rests :
    LET cmd == route(kw, rest) IN
        /\ msg' = [Msg(cmd, sim) EXCEPT !.kw = kw, !.rest = rest]
        /\ IF cmd = "meds" THEN handle_meds(sender)
           ELSE handle_med(sender, now, meds_args(kw, rest), sim)
        /\ UNCHANGED <<now, meals, totals, overrides, ledger, bg>>

\* "/facts ..."
OnFacts(subs, args, senders, sims) ==
    \E sender \in senders, sim \in sims, sub \in subs :
    \E arg \in IF sub \in {"on", "hour"} THEN args ELSE {NoArg},
       target \in IF sub = "number" THEN Targets \cup {""} ELSE {""} :
        /\ msg' = [Msg("facts", sim) EXCEPT
                      !.sub = sub, !.sender = sender,
                      !.args = IF arg.kind = "none" THEN <<>>
                               ELSE IF arg.kind = "int"
                               THEN <<[Word(ToString(arg.n)) EXCEPT !.k = "int", !.v = arg.n]>>
                               ELSE <<Word("soon")>>]
        /\ handle_facts(sender, sub, arg, target, sim)
        /\ UNCHANGED <<now, store, ledger, nops, facts, ticks, sent, workers>>

(* ------------------------------------------------------------------ *)
(* facts_ingest and facts_sender: their own Lambda invocations          *)
(* ------------------------------------------------------------------ *)
\* facts_ingest.lambda_handler on an upload with one fact row
IngestFact ==
    \E fid \in FactIds :
        /\ facts' = put_fact(facts, fid)
        /\ UNCHANGED <<now, store, msg, out, ledger, nops, factscfg, ticks, sent, workers>>

\* facts_sender.lambda_handler on a scheduler event, with no other in flight
HourlyTick(procs) ==
    \E p \in procs :
        /\ \A q \in TickProcs : ticks[q].pc = "idle"
        /\ hourly_tick(p)
        /\ UNCHANGED <<now, store, msg, out, ledger, nops, facts, workers>>

\* the same invocation as the steps of its store and network operations, so
\* that two scheduler events may be in flight together.
\* _hourly_tick, first step: read the config, the clock and the facts
TickRead ==
    \E p \in TickProcs :
        LET today == today_est_from_ts(now)
            reason == tick_skip_reason(factscfg, facts, today, hour_est(now))
        IN  /\ ticks[p].pc = "idle"
            /\ ticks' = [ticks EXCEPT ![p] =
                            IF reason # "" THEN IdleTick(reason)
                            ELSE [pc |-> "send", today |-> today, item |-> NoConfig,
                                  res |-> "running"]]
            /\ UNCHANGED <<now, store, msg, out, ledger, nops, factscfg, facts, sent, workers>>

\* second step: _send_wa
TickSend ==
    \E p \in TickProcs, ok \in BOOLEAN :
        /\ ticks[p].pc = "send"
        /\ sent' = send_wa(sent, ticks[p].today, ok)
        /\ ticks' = [ticks EXCEPT ![p].pc = "get"]
        /\ UNCHANGED <<now, store, msg, out, ledger, nops, factscfg, facts, workers>>

\* third step: the get_item of _set_config_item
TickGet ==
    \E p \in TickProcs :
        /\ ticks[p].pc = "get"
        /\ ticks' = [ticks EXCEPT ![p].pc = "put", ![p].item = factscfg]
        /\ UNCHANGED <<now, store, msg, out, ledger, nops, factscfg, facts, sent, workers>>

\* fourth step: the put_item of _set_config_item, then return
TickPut ==
    \E p \in TickProcs :
        /\ ticks[p].pc = "put"
        /\ factscfg' = set_config_item(ticks[p].item, [last_sent_dt |-> ticks[p].today])
        /\ ticks' = [ticks EXCEPT ![p] = IdleTick("sent")]
        /\ UNCHANGED <<now, store, msg, out, ledger, nops, facts, sent, workers>>

\* an invocation lasts seconds: the clock's steps fall between invocations
QuietTick ==
    /\ \A p \in TickProcs : ticks[p].pc = "idle"
    /\ Tick

(* ------------------------------------------------------------------ *)
(* lambda_handler invocations that run together: a meal or an undo as   *)
(* the sequence of its store operations, one step of one invocation     *)
(* ------------------------------------------------------------------ *)
\* _handle_meal up to its first write: override or Nutritionix macros
MealBegin ==
    \E w \in WorkerIds, in \in ConcurrentMeals :
        LET text == in[1]
            m == match_override_in_text(overrides, text)
            nx == nutritionix(in[3])
            start(macros) == [IdleWorker EXCEPT !.pc = "event", !.op = "meal",
                                                !.dt = today_est_from_ts(in[2]),
                                                !.ts = in[2], !.text = text,
                                                !.macros = macros]
        IN  /\ workers[w].pc = "idle"
            /\ workers' = [workers EXCEPT ![w] =
                    IF m.alias # NoAlias
                    THEN start(macros_from_override(overrides, m.alias, m.qty))
                    ELSE IF ~nx.ok THEN [IdleWorker EXCEPT !.pc = "done", !.op = "meal",
                                                           !.res = "sorry_nx"]
                    ELSE start(nx.total)]
            /\ UNCHANGED <<now, store, msg, out, ledger, nops, factscfg, facts, ticks, sent>>

\* _write_enriched_event
MealEvent ==
    \E w \in WorkerIds :
        /\ workers[w].pc = "event"
        /\ events' = write_enriched_event(events, workers[w].ts)
        /\ workers' = [workers EXCEPT ![w].pc = "row"]
        /\ UNCHANGED <<now, meals, totals, overrides, migs, fasts, fastgoal, meds>>
        /\ UNCHANGED <<msg, out, ledger, nops, factscfg, facts, ticks, sent>>

\* _put_meal_row_idempotent
MealRowPut ==
    \E w \in WorkerIds :
        LET me == workers[w]
        IN  /\ me.pc = "row"
            /\ meals' = put_meal_row_idempotent(meals, me.dt, me.ts, me.text, me.macros, now)
            /\ workers' = [workers EXCEPT ![w].pc = "add"]
            /\ UNCHANGED <<now, totals, events, overrides, migs, fasts, fastgoal, meds>>
            /\ UNCHANGED <<msg, out, ledger, nops, factscfg, facts, ticks, sent>>

\* _update_totals: the update_item with ADD
MealAdd ==
    \E w \in WorkerIds :
        LET me == workers[w]
        IN  /\ me.pc = "add"
            /\ totals' = update_totals(totals, me.dt, me.macros)
            /\ ledger' = Applied(me.dt, me.macros)
            /\ workers' = [workers EXCEPT ![w].pc = "get", ![w].applied = me.macros,
                                          ![w].overlap = OthersInFlight(w)]
            /\ UNCHANGED <<now, meals, events, overrides, migs, fasts, fastgoal, meds>>
            /\ UNCHANGED <<msg, out, nops, factscfg, facts, ticks, sent>>

\* _update_totals: the get_item after it, and the reply
MealGet ==
    \E w \in WorkerIds :
        /\ workers[w].pc = "get"
        /\ workers' = [workers EXCEPT ![w].pc = "done", ![w].res = "meal_saved"]
        /\ UNCHANGED <<now, store, msg, out, ledger, nops, factscfg, facts, ticks, sent>>

\* _handle_undo up to its first write: the query and the choice of the latest
UndoBegin ==
    \E w \in WorkerIds, in \in ConcurrentMeals :
        LET dt == today_est_from_ts(in[2])
            items == {r \in meals : r.dt = dt}
        IN  /\ workers[w].pc = "idle"
            /\ IF items = {}
               THEN workers' = [workers EXCEPT ![w] =
                                   [IdleWorker EXCEPT !.pc = "done", !.op = "undo",
                                                      !.res = "no_meals"]]
               ELSE \E latest \in latest_meals(items) :
                       workers' = [workers EXCEPT ![w] =
                                      [IdleWorker EXCEPT !.pc = "dec", !.op = "undo",
                                                         !.dt = dt, !.row = latest]]
            /\ UNCHANGED <<now, store, msg, out, ledger, nops, factscfg, facts, ticks, sent>>

\* _decrement_totals: the update_item with ADD of the negated macros
UndoDec ==
    \E w \in WorkerIds :
        LET me == workers[w]
        IN  /\ me.pc = "dec"
            /\ totals' = decrement_totals(totals, me.dt, RowMacros(me.row))
            /\ ledger' = Applied(me.dt, MacNeg(RowMacros(me.row)))
            /\ workers' = [workers EXCEPT ![w].pc = "delete",
                                          ![w].applied = MacNeg(RowMacros(me.row)),
                                          ![w].overlap = OthersInFlight(w)]
            /\ UNCHANGED <<now, meals, events, overrides, migs, fasts, fastgoal, meds>>
            /\ UNCHANGED <<msg, out, nops, factscfg, facts, ticks, sent>>

\* delete_item of the row the query returned
UndoDelete ==
    \E w \in WorkerIds :
        /\ workers[w].pc = "delete"
        /\ meals' = meals \ {workers[w].row}
        /\ workers' = [workers EXCEPT ![w].pc = "audit"]
        /\ UNCHANGED <<now, totals, events, overrides, migs, fasts, fastgoal, meds>>
        /\ UNCHANGED <<msg, out, ledger, nops, factscfg, facts, ticks, sent>>

\* the meal.undo event, and the reply
UndoEvent ==
    \E w \in WorkerIds :
        /\ workers[w].pc = "audit"
        /\ events' = put_event(events, now, "meal.undo")
        /\ workers' = [workers EXCEPT ![w].pc = "done", ![w].res = "undid"]
        /\ UNCHANGED <<now, meals, totals, overrides, migs, fasts, fastgoal, meds>>
        /\ UNCHANGED <<msg, out, ledger, nops, factscfg, facts, ticks, sent>>

(* ------------------------------------------------------------------ *)
(* Specifications                                                      *)
(* ------------------------------------------------------------------ *)
\* messages without the /test marker, from a sender with an address
Real == {FALSE}
Addressed == {"+1555"}
OneDay == {AtHour(24 + 9 + 5)}

NextMeals ==
    \/ Tick
    \/ OnMeal(MealInputs, Addressed, Real)
    \/ OnUndo(OneDay, Addressed, Real)
    \/ OnResetToday(OneDay, Addressed, Real)

\* the meal engine: meals logged, undone and reset on one day, no override stored
SpecMeals == Init /\ [][NextMeals]_vars

NextEpisodes ==
    \/ Tick
    \/ OnMigraine({"start", "end", "help"}, EpisodeTimes, {""}, Addressed, Real)
    \/ OnFast({"goal", "status", "start", "end", "help"}, EpisodeTimes, Addressed, Real)

\* the alias model: /food set, del and list on aliases of one, two and three
\* words, typed in lower and in mixed case, with two macro lists
MixedAliases ==
    {<<Word("Canned"), Word("TUNA")>>, <<Word("canned"), Word("tuna")>>, <<Word("tuna")>>,
     <<Word("mac"), Word("and"), Word("cheese")>>}
ReplacingMacros == <<MacroTok("k", 7), MacroTok("c", 2)>>
NextAliases ==
    OnFood(UNION {FoodCommands(a) \cup {<<Word("SET")>> \o a \o ReplacingMacros} :
                    a \in MixedAliases},
           Addressed, Real)
SpecAliases == Init /\ [][NextAliases]_vars

\* the when-phrases of /migraine, with and without the /test marker
NextWhen ==
    \/ Tick
    \/ OnMigraineAt({"start", "end"}, Phrases, Addressed, {TRUE})
    \/ OnMigraineAt({"start"},
                    {Phrase("iso", FALSE, 1, TRUE, 8, 30, ""),
                     Phrase("clock", FALSE, 0, TRUE, 25, 0, "")},
                    Addressed, Real)
SpecWhen == Init /\ [][NextWhen]_vars

\* migraine and fast episodes started, ended and queried
SpecEpisodes == Init /\ [][NextEpisodes]_vars

\* the lifecycle model: episodes started and ended at the clock's time and before
\* it, and doses logged while they are open and closed
NextLifecycle ==
    \/ OnMigraine({"start", "end"}, EpisodeTimes, {""}, Addressed, Real)
    \/ OnFast({"start", "end"}, EpisodeTimes, Addressed, Real)
    \/ /\ nops.doses < MaxLinkedDoses
       /\ OnMed({"sumatriptan"}, {AtHour(24 + 7 + 5)}, Addressed, Real)
SpecLifecycle == Init /\ [][NextLifecycle]_vars

\* a store that has been in use: OPEN_QUERY_LIMIT closed migraines and as many
\* closed fasts, one a minute from 00:01 UTC of day 0, each 30 s long
OlderMigraines ==
    {[start_ms |-> i * 60000, end_ms |-> i * 60000 + 30000, category |-> "non-aura",
      notes |-> "", is_open |-> 0, meds |-> <<>>] : i \in 1 .. OPEN_QUERY_LIMIT}
OlderFasts ==
    {[start_ms |-> i * 60000, end_ms |-> i * 60000 + 30000, is_open |-> 0] :
       i \in 1 .. OPEN_QUERY_LIMIT}
InitPaged ==
    /\ now = Clock0
    /\ meals = {}
    /\ totals = <<>>
    /\ events = {}
    /\ overrides = <<>>
    /\ migs = OlderMigraines
    /\ fasts = OlderFasts
    /\ fastgoal = NoGoal
    /\ meds = {}
    /\ msg = NoMsg
    /\ out = NoOut
    /\ ledger = [d \in Days |-> [applied |-> EmptyBag, reset |-> FALSE]]
    /\ nops = [deltas |-> 0, doses |-> 0, episodes |-> 0]
    /\ factscfg = NoConfig
    /\ facts = {}
    /\ ticks = [p \in TickProcs |-> IdleTick("none")]
    /\ sent = EmptyBag
    /\ workers = [w \in WorkerIds |-> IdleWorker]

\* the lifecycle commands on the store that has been in use
SpecPaged == InitPaged /\ [][NextLifecycle]_vars

\* the End model: episodes started with and without a note, at the clock's time
\* and before it, and ended with and without a note
NextEnd ==
    \/ OnMigraine({"start", "end"}, EpisodeTimes, Notes, Addressed, Real)
    \/ OnFast({"start", "end"}, EpisodeTimes, Addressed, Real)
SpecEnd == Init /\ [][NextEnd]_vars

DoseNames == {"", "sumatriptan", "dihydroergotamine", "zofran"}

NextDoses ==
    \/ Tick
    \/ OnMed(DoseNames, DoseTimes, Addressed, Real)

\* doses of interacting categories logged around midnight
SpecDoses == Init /\ [][NextDoses]_vars

NextDoseLimit ==
    \/ Tick
    \/ OnMed({"dihydroergotamine", "zofran"}, HourlyTimes, Addressed, Real)

\* one limited category logged dose after dose within a month
SpecDoseLimit == Init /\ [][NextDoseLimit]_vars

NextRouter ==
    \/ Tick
    \/ OnMeal({<<MealText(0, "tuna", <<"tuna">>), AtHour(24 + 9 + 5)>>}, Senders, BOOLEAN)
    \/ OnUndo(OneDay, Senders, BOOLEAN)
    \/ OnResetToday(OneDay, Senders, BOOLEAN)
    \/ OnFood(FoodCommands(<<Word("tuna")>>), Senders, BOOLEAN)
    \/ OnMigraine({"start", "end"}, {AtHour(24 + 6 + 5)}, {""}, Senders, {TRUE})
    \/ OnFast({"start", "end"}, {AtHour(24 + 6 + 5)}, Senders, {TRUE})
    \/ OnMed({"sumatriptan"}, {AtHour(24 + 1 + 5)}, Senders, {TRUE})

\* every command, with and without the /test marker, with and without a sender
SpecRouter == Init /\ [][NextRouter]_vars

NextOverrides ==
    \/ Tick
    \/ OnFood(UNION {FoodCommands(a) : a \in Aliases}, Addressed, Real)
    \/ OnMeal(OverrideMeals, Addressed, Real)

\* meal messages of three days, one of them in the month before
RangeMeals == {<<MealText(0, "eggs", <<"eggs">>), t>> : t \in RangeTimes}

NextRange ==
    \/ Tick
    \/ OnMeal(RangeMeals, Addressed, Real)
    \/ OnWeek(Addressed, Real)
    \/ OnMonth(Addressed, Real)

\* meals of several days summed by /week and /month
SpecRange == Init /\ [][NextRange]_vars

\* custom foods set and deleted, meals logged by their aliases
SpecOverrides == Init /\ [][NextOverrides]_vars

\* the gateway model: meal commands whose replies the messaging gateway takes,
\* rejects with an error status, or never answers
GatewayAnswers == {"ok", "error_status", "timeout", "exception"}
GatewayInputs ==
    {<<MealText(0, "eggs", <<"eggs">>), AtHour(24 + 9 + 5)>>,
     <<MealText(0, "toast", <<"toast">>), AtHour(24 + 9 + 5)>>,
     <<NoText, AtHour(24 + 9 + 5)>>}
GatewayResponses ==
    {[kind |-> "http", status |-> 200, foods |-> <<NxFoodA>>],
     [kind |-> "timeout", status |-> 0, foods |-> <<>>]}
NextGateway ==
    \/ Tick
    \/ OnMealCommandVia(GatewayAnswers, GatewayInputs, GatewayResponses, Addressed)
SpecGateway == Init /\ [][NextGateway]_vars

\* the preview model: an alias is stored and deleted, meals are saved, and the
\* same texts are previewed with /lookup and with /test meal; one text lists the
\* alias among several foods
PreviewTexts ==
    {MealText(0, "tuna", <<"tuna">>), MealText(0, "eggs", <<"eggs">>),
     MealText(0, "tuna and rice", <<"tuna", "rice">>)}
NextPreview ==
    \/ OnFood(FoodCommands(<<Word("tuna")>>), Addressed, Real)
    \/ OnMeal({<<t, AtHour(24 + 9 + 5)>> : t \in PreviewTexts}, Addressed, BOOLEAN)
    \/ OnQuery({"lookup"}, PreviewTexts, GatewayResponses, Addressed, Real)
SpecPreview == Init /\ [][NextPreview]_vars

\* the query model: the query commands and the texts that begin with /meds, on
\* a store that meals and doses fill
NextQueries ==
    \/ OnMeal({<<MealText(0, "eggs", <<"eggs">>), AtHour(24 + 9 + 5)>>}, Addressed, Real)
    \/ OnQuery({"help", "summary", "lookup", "barcode", "other"},
               {MealText(0, "eggs", <<"eggs">>)}, GatewayResponses, Addressed, Real)
    \/ OnWeek(Addressed, Real)
    \/ OnMonth(Addressed, Real)
    \/ OnMeds(MedsKeywords, MedsRests, Addressed, BOOLEAN)
SpecQueries == Init /\ [][NextQueries]_vars

\* the validation model: every command, with well-formed and with malformed
\* arguments
MalformedFood ==
    {<<Word("set")>>, <<Word("set"), Word("tuna")>>, <<Word("SET"), Word("tuna"), Word("big")>>,
     <<Word("del")>>}
NextValidation ==
    \/ OnFood(FoodCommands(<<Word("tuna")>>) \cup MalformedFood, Addressed, Real)
    \/ OnFast({"", "other", "goal"}, {}, Addressed, Real)
    \/ OnMed({""}, {AtHour(24 + 1 + 5)}, Addressed, BOOLEAN)
    \/ OnMigraine({"", "other", "start"}, {}, {""}, Addressed, Real)
    \/ OnMeal({<<NoText, AtHour(24 + 9 + 5)>>,
               <<MealText(0, "eggs", <<"eggs">>), AtHour(24 + 9 + 5)>>},
              Addressed, Real)
    \/ OnQuery({"help", "summary", "lookup", "barcode", "other"},
               {NoText, MealText(0, "eggs", <<"eggs">>)}, GatewayResponses,
               Addressed, Real)
SpecValidation == Init /\ [][NextValidation]_vars

\* the facts model: /facts commands, uploads, and scheduler events one at a time
FactsSubs == {"", "status", "on", "off", "hour", "number", "other"}
NextFacts ==
    \/ Tick
    \/ OnFacts(FactsSubs, {NoArg, HourArg("int", 8)}, Senders, BOOLEAN)
    \/ IngestFact
    \/ HourlyTick({1})
SpecFacts == Init /\ [][NextFacts]_vars

\* the config model: "/facts on", "off" and "hour" with every argument, and
\* scheduler events that set last_sent_dt
NextConfig ==
    \/ OnFacts({"on", "off", "hour"}, HourArgs, Senders, BOOLEAN)
    \/ IngestFact
    \/ HourlyTick({1})
SpecConfig == Init /\ [][NextConfig]_vars

\* the overlap model: scheduler events whose invocations interleave
NextOverlap ==
    \/ QuietTick
    \/ OnFacts({"on", "off"}, {HourArg("int", 8)}, Addressed, Real)
    \/ IngestFact
    \/ TickRead
    \/ TickSend
    \/ TickGet
    \/ TickPut
SpecOverlap == Init /\ [][NextOverlap]_vars

\* the concurrent model: MaxWorkers invocations, each a meal or an undo, whose
\* store operations interleave
NextConcurrent ==
    \/ MealBegin
    \/ MealEvent
    \/ MealRowPut
    \/ MealAdd
    \/ MealGet
    \/ UndoBegin
    \/ UndoDec
    \/ UndoDelete
    \/ UndoEvent
SpecConcurrent == Init /\ [][NextConcurrent]_vars

(* ------------------------------------------------------------------ *)
(* Properties                                                          *)
(* ------------------------------------------------------------------ *)
\* the sum of the signed deltas of a bag, whatever the order they came in
RECURSIVE BagSum(_)
BagSum(B) ==
    IF BagToSet(B) = {} THEN ZeroMac
    ELSE LET e == CHOOSE x \in BagToSet(B) : TRUE
             rest == [x \in BagToSet(B) \ {e} |-> B[x]]
         IN  MacAdd(MacScale(e, B[e]), BagSum(rest))

OpenCount(tbl) == Cardinality({e \in tbl : e.is_open = 1})

\* C1: a meal message delivered again (same day, text and timestamp, a Meal
\* Record with its key already stored) leaves the day's Daily Totals as they are:
\* the macros count once
C1_RedeliveryAddsNothing ==
    [][(msg'.cmd = "meal" /\ ~msg'.sim /\ msg'.redelivered /\ msg'.lookup # "failed")
         => totals' = totals]_vars

\* C2: after any Start and End commands, at most one migraine episode and at most
\* one fast is open
C2_AtMostOneOpen == OpenCount(migs) <= 1 /\ OpenCount(fasts) <= 1

\* C3: the dose that brings the month's count of a limited category to its
\* ceiling L is logged without an over-limit warning, the dose that brings it to
\* L + 1 with one
C3_OverLimitAfterCeiling ==
    (msg.cmd = "med" /\ Len(out.replies) = 1 /\ out.replies[1].kind = "logged_med")
    => LET r == out.replies[1]
           L == med_limits_for(r.cat)
           count == count_med_doses_this_month(meds, r.cat)
       IN  L # NoLimit =>
             /\ count = L => "over_limit" \notin r.warn
             /\ count = L + 1 => "over_limit" \in r.warn

\* C4: a message with the /test marker leaves every table as it was
C4_TestWritesNothing == [][msg'.sim => store' = store]_vars

\* C5: every processed message is answered with exactly one reply
C5_ExactlyOneReply == msg.cmd # "none" => (~out.raised /\ Len(out.replies) = 1)

\* C6: without a reset, the Daily Totals of a day are the sum of the macros of the
\* meals logged minus those of the meals undone, a value that depends on which
\* deltas were applied and not on their order
C6_TotalsAreSumOfDeltas ==
    \A d \in Days :
        ~ledger[d].reset => get_totals_for_day(totals, d) = BagSum(ledger[d].applied)

\* C6 happens: three deltas applied to a day, an undo among them, totals not zero
C6_Witness ==
    \E d \in Days :
        /\ ~ledger[d].reset
        /\ BagCardinality(ledger[d].applied) = 3
        /\ \E x \in BagToSet(ledger[d].applied) : x.calories < 0
        /\ get_totals_for_day(totals, d) # ZeroMac
        /\ msg.cmd = "undo"

\* C7: the dose log holds one record per logged dose
C7_OneRecordPerDose == Cardinality(meds) = nops.doses

\* C8: a triptan logged within 24 hours of another triptan or DHE dose carries
\* the triptan warning, a DHE dose logged within 24 hours of a triptan the DHE
\* warning, whatever the calendar days of the two doses
C8_InteractionWarned ==
    [][\A it \in meds' \ meds :
         LET near == {o \in meds' : o.ts_ms # it.ts_ms /\ Abs(o.ts_ms - it.ts_ms) < DAY_MS}
             warn == out'.replies[1].warn
         IN  /\ (it.category = "triptan" /\ \E o \in near : o.category \in {"triptan", "dhe"})
                  => "triptan_24h" \in warn
             /\ (it.category = "dhe" /\ \E o \in near : o.category = "triptan")
                  => "dhe_24h" \in warn]_vars

\* C9: a meal message whose nutrition lookup fails (timeout, request error, HTTP
\* error status, no food matched) writes no table and is answered with the
\* failure message
C9_FailedLookupWritesNothing ==
    [][(msg'.cmd = "meal" /\ ~msg'.sim /\ msg'.lookup = "failed")
         => (store' = store /\ out' = Sent(<<Reply("sorry_nx")>>))]_vars

\* C9 happens: a failed lookup answered while meals and totals are stored
C9_Witness ==
    /\ msg.cmd = "meal" /\ ~msg.sim /\ msg.lookup = "failed"
    /\ out.replies = <<Reply("sorry_nx")>>
    /\ meals # {}
    /\ \E d \in Days : get_totals_for_day(totals, d) # ZeroMac

\* C10: a Start whose episode key is already stored completes with a reply and
\* without an exception
C10_StartAgainReplies ==
    (msg.cmd \in {"migraine", "fast"} /\ msg.redelivered)
    => (~out.raised /\ Len(out.replies) = 1)

\* C11: an End that finds more than one open episode of its type closes none of
\* them (it reports the fault instead): from a state with several open episodes
\* no step lowers their number
C11_SeveralOpenNoneClosed ==
    [][/\ OpenCount(migs) > 1 => OpenCount(migs') >= OpenCount(migs)
       /\ OpenCount(fasts) > 1 => OpenCount(fasts') >= OpenCount(fasts)]_vars

\* C12: an End processed while no episode of its type is open is answered with
\* the nothing-to-end message and changes no record (a closed episode keeps its
\* end time and notes)
C12_EndWithNothingOpen ==
    [][(now' = now /\ ~msg'.sim /\ msg'.sub = "end")
         => /\ (msg'.cmd = "migraine" /\ OpenCount(migs) = 0)
                 => (store' = store /\ out' = Sent(<<Reply("no_open_migraine")>>))
            /\ (msg'.cmd = "fast" /\ OpenCount(fasts) = 0)
                 => (store' = store /\ out' = Sent(<<Reply("no_open_fast")>>))]_vars

\* C12 happens: a second End after Start and End, the closed episode still stored
C12_Witness ==
    /\ msg.cmd = "migraine" /\ msg.sub = "end" /\ ~msg.sim
    /\ out.replies = <<Reply("no_open_migraine")>>
    /\ \E e \in migs : e.is_open = 0 /\ e.end_ms > 0 /\ e.notes # ""

\* C13: an undo on a day with meal records takes a record with the greatest
\* created_ms, subtracts that record's stored macros from the day's totals,
\* deletes that record and no other, and writes one meal.undo event
C13_UndoTakesLatest ==
    [][(now' = now /\ msg'.cmd = "undo" /\ ~msg'.sim /\ meals # {})
         => \E latest \in meals :
              /\ \A r \in meals : r.dt = latest.dt => r.created_ms <= latest.created_ms
              /\ meals' = meals \ {latest}
              /\ get_totals_for_day(totals', latest.dt)
                   = MacAdd(get_totals_for_day(totals, latest.dt),
                            Mac(0 - latest.kcal, 0 - latest.protein_g,
                                0 - latest.carbs_g, 0 - latest.fat_g))
              /\ \A d \in DOMAIN totals \ {latest.dt} : totals'[d] = totals[d]
              /\ [sk |-> now, type |-> "meal.undo"] \in events'
              /\ \A e \in events' : e.sk # now => e \in events]_vars

\* C13 happens: two meals logged at different times, the later one undone
C13_Witness ==
    /\ msg.cmd = "undo" /\ ~msg.sim
    /\ out.replies = <<Reply("undid")>>
    /\ \E r \in meals : r.created_ms < now
    /\ \E e \in events : e.type = "meal.undo" /\ e.sk = now

\* C14: an undo on a day without meal records is answered with the
\* nothing-to-undo message and writes no table
C14_UndoOnEmptyDay ==
    [][(now' = now /\ msg'.cmd = "undo" /\ meals = {})
         => (store' = store /\ out' = Sent(<<Reply("no_meals")>>))]_vars

\* C14 happens: nothing left to undo on a day that had meals and keeps totals
C14_Witness ==
    /\ msg.cmd = "undo" /\ ~msg.sim
    /\ out.replies = <<Reply("no_meals")>>
    /\ meals = {} /\ events # {}
    /\ \E d \in Days : get_totals_for_day(totals, d) # ZeroMac

\* C15: a reset sets the four totals of the day to 0 whatever was applied before,
\* and a meal logged next leaves the totals equal to that meal's macros
C15_ResetThenReaccumulate ==
    [][(now' = now /\ ~msg'.sim)
         => \A d \in Days :
              /\ msg'.cmd = "reset" => get_totals_for_day(totals', d) = ZeroMac
              /\ (/\ msg.cmd = "reset" /\ ~msg.sim /\ ledger[d].reset
                  /\ msg'.cmd = "meal" /\ msg'.lookup # "failed"
                  /\ ledger'[d].applied # ledger[d].applied)
                   => \E delta \in BagToSet(ledger'[d].applied) :
                        /\ ledger'[d].applied = ledger[d].applied (+) SetToBag({delta})
                        /\ get_totals_for_day(totals', d) = delta]_vars

\* C15 happens: two meals logged (none undone), a reset, one more meal, the
\* totals being the macros of one meal
C15_Witness ==
    \E d \in Days :
        /\ ledger[d].reset
        /\ msg.cmd = "meal" /\ ~msg.sim /\ msg.lookup = "ok"
        /\ BagCardinality(ledger[d].applied) = 3
        /\ \A x \in BagToSet(ledger[d].applied) : x.calories > 0
        /\ get_totals_for_day(totals, d) \in BagToSet(ledger[d].applied)

\* C16: a meal whose text is a stored alias, with or without a quantity q, adds
\* the alias's stored macros times max(1, q) to the day's totals without a
\* lookup, whatever the nutrition service would answer
C16_AliasMealUsesOverride ==
    [][(now' = now /\ msg'.cmd = "meal" /\ ~msg'.sim
          /\ has_override(overrides, msg'.text.whole))
         => /\ msg'.lookup = "none"
            /\ \A d \in Days :
                 get_totals_for_day(totals', d)
                   = MacAdd(get_totals_for_day(totals, d),
                            MacScale(overrides[msg'.text.whole],
                                     Max(1, msg'.text.q)))]_vars

\* the sum over the days lo .. hi of the single-day range sums
RECURSIVE SumOfDays(_, _, _)
SumOfDays(tbl, lo, hi) ==
    IF lo > hi THEN [cal |-> 0, pro |-> 0, carb |-> 0, fat |-> 0]
    ELSE LET r == sum_range(tbl, lo, lo)
             rest == SumOfDays(tbl, lo + 1, hi)
         IN  [cal |-> r.cal + rest.cal, pro |-> r.pro + rest.pro,
              carb |-> r.carb + rest.carb, fat |-> r.fat + rest.fat]

\* n tenths is a nearest tenth of num / den
NearestTenth(n, num, den) ==
    LET diff == 10 * num - n * den
    IN  2 * (IF diff >= 0 THEN diff ELSE 0 - diff) <= den

\* the days around the stored ones over which ranges are taken
RangeDays == -2 .. 2

\* C17: the range sum of one day is that day's totals (zero without a row), the
\* range sum of start .. end is, per metric, the sum of the single-day sums of its
\* days, and the averages divide by the number of days, both ends included
C17_RangeIsSumOfDays ==
    \A s \in RangeDays, e \in RangeDays :
        s <= e =>
          LET r == sum_range(totals, s, e)
              one == sum_range(totals, s, s)
              t == get_totals_for_day(totals, s)
              all == SumOfDays(totals, s, e)
          IN  /\ one.cal = t.calories /\ one.pro = t.protein
              /\ one.carb = t.carbs /\ one.fat = t.fat
              /\ r.cal = all.cal /\ r.pro = all.pro
              /\ r.carb = all.carb /\ r.fat = all.fat
              /\ r.days = (e - s) + 1
              /\ NearestTenth(r.avg_cal, r.cal, (e - s) + 1)
              /\ NearestTenth(r.avg_pro, r.pro, (e - s) + 1)

\* C17 happens: /week answered over seven days of which three have a totals row
C17_Witness ==
    /\ msg.cmd = "week"
    /\ Cardinality(DOMAIN totals) = 3
    /\ \A d \in DOMAIN totals : totals[d].calories > 0
    /\ out.replies[1].sum = sum_range(totals, today_est_from_ts(now) - 6, today_est_from_ts(now))
    /\ out.replies[1].sum.days = 7
    /\ out.replies[1].sum.avg_cal > 0

\* what a scheduler tick needs to send: daily facts enabled, a destination, no
\* send recorded for today, the local hour equal to the configured hour (9 when
\* none is configured), and a stored fact
SendConditions ==
    /\ factscfg.daily_enabled
    /\ factscfg.to_number # ""
    /\ factscfg.last_sent_dt # today_est_from_ts(now)
    /\ hour_est(now) = (IF factscfg.daily_hour = NoHour THEN 9 ELSE factscfg.daily_hour)
    /\ facts # {}
SkipReasons == {"disabled or no to_number", "already sent today", "wrong hour",
                "no facts available"}

DeliveredOn(d) == CopiesIn([day |-> d, ok |-> TRUE], sent)

\* C19: across the scheduler ticks of one hour of one calendar day, overlapping
\* ones included, at most one fact is sent to the user
C19_AtMostOneFactPerDay ==
    \A d \in {today_est_from_ts(Clock0 + i * TickMs) : i \in 0 .. MaxTicks} :
        DeliveredOn(d) <= 1

\* the sum of the deltas the invocations 1 .. n have added to the totals of day d
RECURSIVE AddedBy(_, _)
AddedBy(n, d) ==
    IF n = 0 THEN ZeroMac
    ELSE MacAdd(AddedBy(n - 1, d),
                IF workers[n].dt = d THEN workers[n].applied ELSE ZeroMac)
AllDone == \A w \in WorkerIds : workers[w].pc = "done"

\* C20: when several invocations of one day apply meal deltas concurrently, then
\* under every interleaving of their store operations the final Daily Totals
\* are the sum of all the deltas applied
C20_NoLostUpdate ==
    AllDone => \A d \in Days : get_totals_for_day(totals, d) = AddedBy(MaxWorkers, d)
\* all invocations are done, and two of them added their deltas while another
\* one was in flight
C20_Witness ==
    /\ AllDone
    /\ \E v, w \in WorkerIds :
          /\ v # w
          /\ workers[v].overlap /\ workers[w].overlap
          /\ workers[v].applied # ZeroMac /\ workers[w].applied # ZeroMac

\* C21: an exception raised while a message is processed is caught at the router
\* and lambda_handler completes normally: no invocation ends by raising
C21_ExceptionCaughtAtRouter == ~out.raised

\* C22: a failure of the messaging gateway on a reply (error status, timeout,
\* request exception) is logged only and never raised to the caller of the
\* handler
C22_GatewayFailureNotRaised == msg.gateway # "ok" => ~out.raised

\* the commands with malformed arguments: /food with no or an unknown
\* subcommand, /food set without a macro token or with only zero macros, /food
\* del without alias, /fast with no or an unknown subcommand, /fast goal without
\* a number, /med with no text, /migraine without start or end, /barcode with a
\* digit count other than 8, 12, 13, 14, a meal or a /lookup with no description
Malformed(m) ==
    \/ /\ m.cmd = "food"
       /\ \/ m.args = <<>>
          \/ m.args[1].w \notin {"list", "del", "set", "SET"}
          \/ m.args[1].w = "del" /\ Len(m.args) = 1
          \/ /\ m.args[1].w \in {"set", "SET"}
             /\ \A i \in 2 .. Len(m.args) : m.args[i].eq => m.args[i].v = 0
    \/ m.cmd = "fast" /\ m.sub \notin {"start", "end", "status", "goal"}
    \/ m.cmd = "fast" /\ m.sub = "goal" /\ m.args = <<>>
    \/ m.cmd = "med" /\ m.args = <<>>
    \/ m.cmd = "migraine" /\ m.sub \notin {"start", "end"}
    \/ m.cmd = "barcode" /\ m.args[1].v \notin {8, 12, 13, 14}
    \/ m.cmd \in {"meal", "lookup"} /\ m.text = NoText
UsageHints ==
    {"usage_food", "provide_macros", "usage_fast", "usage_fast_goal", "usage_med",
     "usage_migraine", "usage_barcode", "try_meal", "usage_lookup"}

\* C23: a command with malformed arguments is answered with a usage hint and
\* writes nothing to any table
C23_MalformedWritesNothing ==
    [][(now' = now /\ Malformed(msg'))
         => /\ store' = store /\ factscfg' = factscfg
            /\ out' = Sent(out'.replies)
            /\ Len(out'.replies) = 1
            /\ out'.replies[1].kind \in UsageHints]_vars
\* C23 happens: the tables hold a fasting goal, a migraine, an override and a
\* meal, and the last message was a malformed /food set answered with a hint
C23_Witness ==
    /\ fastgoal # NoGoal /\ migs # {} /\ DOMAIN overrides # {} /\ meals # {}
    /\ msg.cmd = "food" /\ Len(msg.args) = 3 /\ Malformed(msg)
    /\ out.replies = <<Reply("provide_macros")>>

\* the text starts with no command keyword and not with the meal keyword
NoCommand(m) == m.kw = ""

\* C24: a text that matches no slash-command and does not start with the meal
\* keyword is answered with the help hint and changes no table
C24_UnrecognizedNoChange ==
    [][(now' = now /\ NoCommand(msg'))
         => /\ out' = Sent(<<Reply("unrecognized")>>)
            /\ store' = store /\ factscfg' = factscfg /\ facts' = facts]_vars

\* C24 happens: the tables hold a meal, an override and a migraine, and the last
\* message was a text that is no command, answered with the hint
C24_Witness ==
    /\ meals # {} /\ DOMAIN overrides # {} /\ migs # {}
    /\ NoCommand(msg) /\ msg.rest = " x"
    /\ out.replies = <<Reply("unrecognized")>>

\* the replies that start with the [TEST] marker
TestReplies ==
    {"test_meal_override", "test_meal", "test_undo", "test_reset", "test_migraine_start",
     "test_migraine_end", "test_fast_goal", "test_fast", "test_med", "test_facts_on",
     "test_facts_off", "test_facts_hour", "test_facts_number"}

\* C25: every reply to a message with the /test marker starts with the [TEST]
\* marker, whatever the command
C25_TestRepliesPrefixed ==
    msg.sim => \A i \in 1 .. Len(out.replies) : out.replies[i].kind \in TestReplies

\* C26: every when-phrase resolves to a timestamp and never to an error, also a
\* numeric phrase whose hour or minute is out of range
C26_WhenNeverRaises == msg.cmd = "migraine" => ~msg.when.raised

\* the phrase is a full date with a clock time, both in range
FullDateTime(p) == p.form = "iso" /\ p.valid /\ p.hh \in 0 .. 23 /\ p.mm \in 0 .. 59

\* C27: a full date plus clock time resolves to exactly that local date and
\* time, whatever the current time: its local day is the date, and the
\* instant is hh:mm after that day's local midnight
C27_IsoResolvesToLocalTime ==
    FullDateTime(msg.when.phrase)
        => /\ ~msg.when.raised
           /\ today_est_from_ts(msg.when.ms) = msg.when.phrase.day
           /\ (msg.when.ms - TZ_OFFSET_MS) % DAY_MS
                  = msg.when.phrase.hh * HOUR_MS + msg.when.phrase.mm * 60000

\* C27 happens: "<day 2> 08:30" was parsed after the clock moved on from its start
C27_Witness ==
    /\ now # Clock0
    /\ msg.when.phrase = Phrase("iso", FALSE, 2, TRUE, 8, 30, "")
    /\ msg.when.ms = AtHour(2 * 24 + 8 + 5) + 30 * 60000
    /\ today_est_from_ts(now) # 2

\* the message is a non-simulated "/facts on <hour>" with a number as the hour
FactsOnHour(m) ==
    /\ m.cmd = "facts" /\ m.sub = "on" /\ ~m.sim
    /\ m.args # <<>> /\ m.args[1].k = "int"
Clamped(n) == IF n < 0 THEN 0 ELSE IF n > 23 THEN 23 ELSE n

\* C28: a non-simulated "/facts on <hour>" leaves the config enabled, with the
\* given hour clamped to 0..23 and the sender as destination, every other field
\* as it was, and replies that facts are enabled; the stored hour is within
\* 0..23 after any sequence of commands
C28_FactsOnSetsConfig ==
    [][/\ (<<now, facts, ticks, sent>>' = <<now, facts, ticks, sent>> /\ FactsOnHour(msg'))
          => /\ factscfg' = [factscfg EXCEPT !.daily_enabled = TRUE,
                                             !.daily_hour = Clamped(msg'.args[1].v),
                                             !.to_number = msg'.sender]
             /\ out' = Sent(<<ReplyN("facts_on", Clamped(msg'.args[1].v))>>)
       /\ factscfg'.daily_hour # NoHour => factscfg'.daily_hour \in 0 .. 23]_vars

\* C28 happens: a fact was sent earlier (last_sent_dt is set), the destination
\* was another number, and "/facts on 30" stored hour 23 and the sender
C28_Witness ==
    /\ FactsOnHour(msg) /\ msg.args[1].v = 30 /\ msg.sender = "+1555"
    /\ factscfg = [daily_enabled |-> TRUE, daily_hour |-> 23, to_number |-> "+1555",
                   last_sent_dt |-> today_est_from_ts(Clock0)]
    /\ BagCardinality(sent) = 1

\* the message is "/food set <alias words> <macros>" with at least one alias
\* word and macros that are not all zero
FoodSet(m) ==
    /\ m.cmd = "food" /\ Len(m.args) >= 3
    /\ m.args[1].w \in {"set", "SET"} /\ ~m.args[2].eq
    /\ \E i \in 3 .. Len(m.args) : m.args[i].eq /\ m.args[i].v # 0
\* the index of its first token with "="
FirstEq(m) == CHOOSE i \in 2 .. Len(m.args) :
                 m.args[i].eq /\ \A j \in 2 .. i - 1 : ~m.args[j].eq
\* the words 2 .. n of the message in lower case, one space between
RECURSIVE Joined(_, _)
Joined(m, n) ==
    IF n = 2 THEN Lower(m.args[2].w) ELSE Joined(m, n - 1) \o " " \o Lower(m.args[n].w)
\* the value the message gives a macro key, 0 when it gives none
Given(m, key) ==
    IF \E i \in 3 .. Len(m.args) : m.args[i].eq /\ m.args[i].k = key
    THEN (CHOOSE tok \in {m.args[i] : i \in 3 .. Len(m.args)} : tok.eq /\ tok.k = key).v
    ELSE 0

\* C29: /food set stores the override under the alias made of all tokens between
\* "set" and the first token with "=", in lower case with single spaces, and an
\* alias that normalizes to a stored key replaces that entry
C29_SetUpsertsNormalizedAlias ==
    [][(now' = now /\ FoodSet(msg'))
         => LET alias == Joined(msg', FirstEq(msg') - 1) IN
            /\ DOMAIN overrides' = DOMAIN overrides \cup {alias}
            /\ overrides'[alias] = Mac(Given(msg', "k"), Given(msg', "p"),
                                       Given(msg', "c"), Given(msg', "f"))
            /\ \A a \in DOMAIN overrides \ {alias} : overrides'[a] = overrides[a]]_vars

\* C29 happens: "canned tuna" and "tuna" are stored, and "SET Canned TUNA k=7 c=2"
\* has replaced the macros of "canned tuna"
C29_Witness ==
    /\ FoodSet(msg) /\ msg.args[1].w = "SET" /\ msg.args[2].w = "Canned"
    /\ DOMAIN overrides = {"canned tuna", "tuna"}
    /\ overrides["canned tuna"] = Mac(7, 0, 2, 0)
    /\ overrides["tuna"] = Mac(5, 4, 0, 1)

\* the message is a non-simulated End of the episodes of table tbl, one of
\* which is open
EndOnOpen(m, cmd, tbl) ==
    /\ m.cmd = cmd /\ m.sub = "end" /\ ~m.sim
    /\ \E e \in tbl : e.is_open = 1
\* the note of the message, "" when it has none
NoteOf(m) == IF m.args = <<>> THEN "" ELSE m.args[1].w
\* whole minutes from start to when, 0 when `when` is the earlier one
Elapsed(when, start) == IF when >= start THEN (when - start) \div 60000 ELSE 0

\* C30: End on an open episode sets end_time to `when` and is_open to false on
\* that episode only, stores the existing notes and the incoming note joined by
\* one space (no space when either is empty), and reports the duration
\* max(0, when - start_time), 0 when `when` is before the start
C30_EndClosesOneEpisode ==
    [][/\ (now' = now /\ EndOnOpen(msg', "migraine", migs))
          => \E ep \in migs :
               /\ ep.is_open = 1
               /\ migs' = (migs \ {ep}) \cup
                    {[ep EXCEPT !.end_ms = msg'.when.ms, !.is_open = 0,
                                !.notes = IF ep.notes = "" THEN NoteOf(msg')
                                          ELSE IF NoteOf(msg') = "" THEN ep.notes
                                          ELSE ep.notes \o " " \o NoteOf(msg')]}
               /\ out'.replies = <<ReplyN("migraine_ended", Elapsed(msg'.when.ms, ep.start_ms))>>
       /\ (now' = now /\ EndOnOpen(msg', "fast", fasts))
          => \E ep \in fasts :
               /\ ep.is_open = 1
               /\ fasts' = (fasts \ {ep}) \cup
                    {[ep EXCEPT !.end_ms = msg'.when.ms, !.is_open = 0]}
               /\ Len(out'.replies) = 1
               /\ out'.replies[1].kind = "fast_ended"
               /\ out'.replies[1].n = Elapsed(msg'.when.ms, ep.start_ms)]_vars

\* C30 happens: of two open migraines, the one started at the clock's time with
\* a note was ended at 06:00, before its start, with a note: duration 0, both
\* notes joined, and the other episode is still open
C30_Witness ==
    /\ msg.cmd = "migraine" /\ msg.sub = "end" /\ NoteOf(msg) = "dark room"
    /\ out.replies = <<ReplyN("migraine_ended", 0)>>
    /\ \E e \in migs : /\ e.is_open = 0 /\ e.start_ms > e.end_ms
                        /\ e.end_ms = msg.when.ms
                        /\ e.notes = "dark room dark room"
    /\ \E e \in migs : e.is_open = 1

\* C31: a logged dose carries the approaching-limit warning exactly when the
\* month's count of its category, the dose included, is at least 75% of the
\* ceiling and not above it; below 75% it carries neither limit warning, and
\* never both
C31_NearLimitFromThreeQuarters ==
    (msg.cmd = "med" /\ Len(out.replies) = 1 /\ out.replies[1].kind = "logged_med")
    => LET r == out.replies[1]
           L == med_limits_for(r.cat)
           count == count_med_doses_this_month(meds, r.cat)
       IN  L # NoLimit =>
             /\ "near_limit" \in r.warn <=> (100 * count >= 75 * L /\ count <= L)
             /\ 100 * count < 75 * L => r.warn \cap {"near_limit", "over_limit"} = {}
             /\ ~({"near_limit", "over_limit"} \subseteq r.warn)

\* the step logs a dose
DoseLogged == now' = now /\ msg'.cmd = "med" /\ meds' # meds

\* C32: a logged dose is linked to a migraine episode if and only if one is open;
\* linking appends the dose to that episode's list and leaves its other fields
\* as they were, and the dose record is written in both cases
C32_LinkedIffOpen ==
    [][DoseLogged
         => IF OpenCount(migs) = 0
            THEN migs' = migs /\ "linked" \notin out'.replies[1].warn
            ELSE /\ "linked" \in out'.replies[1].warn
                 /\ \E ep \in migs, it \in meds' :
                      /\ ep.is_open = 1
                      /\ migs' = (migs \ {ep}) \cup {[ep EXCEPT !.meds = Append(@, it)]}]_vars

\* C33: episode records are never deleted and a closed episode never becomes
\* open again
C33_EpisodesKeptAndStayClosed ==
    [][/\ \A e \in migs : \E f \in migs' :
             f.start_ms = e.start_ms /\ (e.is_open = 0 => f.is_open = 0)
       /\ \A e \in fasts : \E f \in fasts' :
             f.start_ms = e.start_ms /\ (e.is_open = 0 => f.is_open = 0)]_vars

\* C33 happens: one migraine was started and ended, another is open and had a
\* dose linked to it, and both records are stored
C33_Witness ==
    /\ \E e \in migs : e.is_open = 0 /\ e.end_ms > 0
    /\ \E e \in migs : e.is_open = 1 /\ e.meds # <<>>
    /\ msg.cmd = "med"

\* C40: while an episode of a type is open, End of that type closes an open
\* episode and never replies that nothing is open, however many older records
\* the store holds, and it closes the open one with the latest start_time
C40_EndFindsLatestOpen ==
    [][/\ (now' = now /\ EndOnOpen(msg', "migraine", migs))
          => /\ out'.replies # <<Reply("no_open_migraine")>>
             /\ \E ep \in migs :
                  /\ ep.is_open = 1
                  /\ \A e \in migs : e.is_open = 1 => e.start_ms <= ep.start_ms
                  /\ \E f \in migs' : f.start_ms = ep.start_ms /\ f.is_open = 0
       /\ (now' = now /\ EndOnOpen(msg', "fast", fasts))
          => /\ out'.replies[1].kind # "no_open_fast"
             /\ \E ep \in fasts :
                  /\ ep.is_open = 1
                  /\ \A e \in fasts : e.is_open = 1 => e.start_ms <= ep.start_ms
                  /\ \E f \in fasts' : f.start_ms = ep.start_ms /\ f.is_open = 0]_vars

\* C34: the calories a /lookup preview adds to the day's totals are the calories
\* a meal of the same text applies in the same store state: the override's when
\* the text matches a stored alias (no lookup is made, so the preview cannot
\* fail), the nutrition service's otherwise
C34_PreviewEqualsApplied ==
    [][(now' = now /\ msg'.cmd = "lookup" /\ msg'.text # NoText)
         => LET m == match_override_in_text(overrides, msg'.text)
                r == out'.replies[1]
                before == get_totals_for_day(totals, today_est_from_ts(now)).calories
            IN  IF m.alias # NoAlias
                THEN /\ r.kind = "lookup"
                     /\ r.n = before
                               + macros_from_override(overrides, m.alias, m.qty).calories
                ELSE r.kind = "lookup"
                       => \E resp \in GatewayResponses :
                            /\ nutritionix(resp).ok
                            /\ r.n = before + nutritionix(resp).total.calories]_vars

\* the step saves a meal whose text lists several foods and is no stored alias
ListedFoodsMeal ==
    /\ now' = now /\ msg'.cmd = "meal" /\ ~msg'.sim
    /\ Len(msg'.text.foods) > 1
    /\ ~has_override(overrides, msg'.text.whole)

\* C35: a meal text that lists several foods and is not itself a stored alias
\* goes to the nutrition lookup even when one of the listed foods is an alias:
\* what is added to the day's totals is the lookup's sum for the text, never the
\* macros of one listed food alone
C35_ListedFoodsGoToLookup ==
    [][ListedFoodsMeal
         => /\ msg'.lookup # "none"
            /\ \A d \in Days :
                 get_totals_for_day(totals', d) # get_totals_for_day(totals, d)
                   => \E resp \in NxResponses :
                        /\ nutritionix(resp).ok
                        /\ get_totals_for_day(totals', d)
                             = MacAdd(get_totals_for_day(totals, d),
                                      nutritionix(resp).total)]_vars

\* the texts the query commands begin with
QueryPrefixes ==
    {"/summary", "/week", "/month", "/lookup", "/help", "help"} \cup MedsKeywords

\* C36: a message whose text begins with a query command leaves every table as
\* it was; in particular a text that begins with /meds appends no dose record
C36_QueriesLeaveStore ==
    [][(now' = now /\ msg'.kw \in QueryPrefixes) => store' = store]_vars

\* C37: a triptan or DHE dose logged while the dose log holds no other triptan
\* or DHE dose less than 24 hours away from it carries no interaction warning
C37_NoWarningFromOwnDose ==
    [][\A it \in meds' \ meds :
         (/\ now' = now /\ msg'.cmd = "med"
          /\ it.category \in {"triptan", "dhe"}
          /\ ~\E o \in meds : /\ o.category \in {"triptan", "dhe"}
                              /\ Abs(it.ts_ms - o.ts_ms) < DAY_MS)
         => out'.replies[1].warn \cap {"triptan_24h", "dhe_24h"} = {}]_vars

\* C38: every metric of every day's totals is at least 0
C38_TotalsNeverNegative ==
    \A d \in DOMAIN totals :
        /\ totals[d].calories >= 0 /\ totals[d].protein >= 0
        /\ totals[d].carbs >= 0 /\ totals[d].fat >= 0

\* C39: every undo that has subtracted a Meal Record's macros from the totals
\* then deletes that record, which is still stored: under every interleaving
\* what the undos subtract is what the deleted records held, no record twice
C39_UndoSubtractsOncePerRecord ==
    [][\A w \in WorkerIds :
         (workers[w].pc = "delete" /\ workers'[w].pc = "audit")
           => workers[w].row \in meals]_vars

====
